---- MODULE Spec2Model ----
(***************************************************************************)
(* Verification model of the nearai TEE control plane.                     *)
(*                                                                         *)
(*   Spec        the Guest Pool Manager (guest_manager/src/lib.rs): one    *)
(*               Manager driven by one caller at a time (every operation   *)
(*               takes &mut self), against a Docker daemon and CVM guests  *)
(*               whose answers are chosen nondeterministically.            *)
(*   SpecClient  one CvmClient (cvm_client/src/lib.rs) against a network   *)
(*               whose peer and answers are chosen nondeterministically.   *)
(*   SpecKey     the sealing-key relay of the Host Bridge                  *)
(*               (host_api/src/lib.rs): GetSealingKey and get_key against  *)
(*               a key provider, and the mapping of errors to answers.     *)
(*   SpecRead    the loop of get_key that reads the response frame.        *)
(*   SpecBridge  start_server_in_thread and the Notify handler of the Host *)
(*               Bridge, served by the worker threads of its runtime.      *)
(*   SpecBridgeFair  the same with GetSealingKey handlers that wait for    *)
(*               the key provider, under a fair scheduler.                 *)
(*   SpecGateway the Tenant Gateway (guest_manager/src/main.rs): the       *)
(*               /assign_cvm handlers and the signal task around the pool  *)
(*               mutex.                                                    *)
(*   SpecGatewayFair  the same under the fairness of tokio's mutex.        *)
(*   SpecRunner  the Host Runner (host_runner/src/lib.rs): memory_to_mb,   *)
(*               parse_port_mapping, the manifest of setup_instance, and   *)
(*               the config patch and QEMU argv of run_instance.           *)
(*   SpecVm      run_instance and shutdown_instances of one shared         *)
(*               DStackManager, called from several threads.               *)
(***************************************************************************)
EXTENDS Integers, Sequences, FiniteSets, TLC

\* ------------------------------------------------------------------ bounds
MaxPool == 2          \* largest pool_size handed to Manager::new
MaxPorts == 3         \* host ports the Docker daemon can bind
MaxContainers == 3    \* containers the Docker daemon can create
MaxCerts == 2         \* TLS certificates a peer can present to a CvmClient
MaxQuoteLen == 2      \* longest quote, encrypted key and provider quote, in bytes
MaxWorkers == 2       \* worker threads serving Host Bridge requests at once
MaxHandlers == 2      \* /assign_cvm requests in flight at the Tenant Gateway
MaxPortMaps == 2      \* port strings handed to setup_instance
MaxRunThreads == 2    \* threads calling run_instance on one DStackManager
MaxChildren == 2      \* hypervisor processes spawned in one run
MaxChunks == 2        \* whole 4096-byte buffers in the longest response frame
MaxShortReads == 2    \* reads of one frame that return less than they could

Ports == 1..MaxPorts
ContainerIds == 1..MaxContainers

\* ------------------------------------------------------- Docker (external)
\* What one add_cvm_to_pool call can meet at the daemon.
AddOutcomes == {"ok", "create_err", "start_err", "inspect_err", "no_port"}

Running(cs) == {i \in 1..Len(cs) : cs[i].st = "running"}

\* Host ports bound by a running container: the daemon hands out none of these.
BoundPorts(cs) == {cs[i].port : i \in Running(cs)}

\* Ports no container was ever bound to.
NeverBound(cs) == Ports \ {cs[i].port : i \in 1..Len(cs)}

\* The host ports the daemon may bind next: any port no running container
\* holds. The Manager only stores and compares ports, so the ports never bound
\* before are interchangeable and the lowest of them stands for all.
AvailablePorts(cs) ==
    ((Ports \ BoundPorts(cs)) \ NeverBound(cs))
        \cup {p \in NeverBound(cs) : \A q \in NeverBound(cs) : p <= q}

\* The daemon's side of one add_cvm_to_pool call: outcome k, bound host port p
\* (0 when no port is bound).
DockerCan(cs, k, p) ==
    IF k = "create_err"
    THEN p = 0
    ELSE /\ Len(cs) < MaxContainers
         /\ IF k = "start_err" THEN p = 0 ELSE p \in AvailablePorts(cs)

\* ------------------------------------------------------------ Manager state
VARIABLES
    mgr,          \* "none" | "building" | "live" | "dropped": the Manager value
    pool_size,    \* the argument of Manager::new
    capacity,     \* free_cvm_ports.capacity()
    free,         \* free_cvm_ports: VecDeque<u16>
    active,       \* active_containers: port -> container id (0: no entry)
    containers,   \* the daemon's containers, by id: [port, st]
    pc,           \* where the running Manager operation stands
    op,           \* the running public operation
    chosen,       \* port_to_return of the running get_cvm
    trace,        \* steps of the running / last assign_cvm: [step, port, ok]
    sd_todo,      \* shutdown: container_ids still to sweep
    sd_reg,       \* shutdown: the ids registered in active when it was called
    sd_log,       \* shutdown: per container, what the sweep attempted
    ret,          \* the last return of an operation: [fn, ok, port, err]
    taken,        \* ports get_cvm removed from free (in order)
    handed,       \* ports get_cvm returned Ok (in order)
    collided,     \* add_cvm_to_pool returned a port that was already registered
    shut,         \* shutdown has drained the pool
    scan          \* the last scan of get_cvm: the indices of free whose client
                  \* would be built and attest

poolVars == <<mgr, pool_size, capacity, free, active, containers, pc, op, chosen,
              trace, sd_todo, sd_reg, sd_log, ret, taken, handed, collided, shut,
              scan>>


NoActive == [p \in Ports |-> 0]
NoScan == {}
NoRet == [fn |-> "none", ok |-> FALSE, port |-> 0, err |-> "none"]
NoAttempt == [stop |-> "none", kill |-> "none", remove |-> "none"]
NoLog == [i \in ContainerIds |-> NoAttempt]

Registered(act) == {p \in Ports : act[p] # 0}

\* VecDeque::with_capacity(n).capacity(): the deque allocates exactly the
\* requested number of slots for a non-zero-sized element type.
with_capacity(n) == n

\* Faulty variants of the loop condition: one iteration too many, one too few.
FillNeededOver(len, cap) == len <= cap
FillNeededShort(len, cap) == len + 1 < cap

\* The loop condition of fill_cvm_pool.
FillNeeded(len, cap) == len < cap

\* Faulty variant: the queue keeps its ports.
EmptiedNot(q) == q

\* free_cvm_ports.drain(..) and free_cvm_ports.clear(): no port is left.
Emptied(q) == <<>>

\* Faulty variant: the chosen port is left in the queue.
RemoveAtKeep(s, i) == s

\* VecDeque::remove(index).
RemoveAt(s, i) == SubSeq(s, 1, i - 1) \o SubSeq(s, i + 1, Len(s))

\* Faulty variant: the scan keeps the last index whose client attests.
LastAttested(att) ==
    IF att = {} THEN 0 ELSE CHOOSE i \in att : \A j \in att : i >= j

\* The scan of get_cvm: the first index whose client attests (0: none).
FirstAttested(att) ==
    IF att = {} THEN 0 ELSE CHOOSE i \in att : \A j \in att : i <= j

\* Faulty variant: the started container is returned but never registered.
add_cvm_to_pool_unregistered(cs, act, k, p) ==
    IF k = "create_err"
    THEN [containers |-> cs, active |-> act, ok |-> FALSE, port |-> 0]
    ELSE [containers |-> Append(cs, [port |-> p,
                                     st |-> IF k = "start_err" THEN "created" ELSE "running"]),
          active |-> act, ok |-> k = "ok", port |-> IF k = "ok" THEN p ELSE 0]

\* add_cvm_to_pool against the daemon's outcome k and host port p.
add_cvm_to_pool(cs, act, k, p) ==
    CASE k = "create_err" ->
           [containers |-> cs, active |-> act, ok |-> FALSE, port |-> 0]
      [] k = "start_err" ->
           [containers |-> Append(cs, [port |-> 0, st |-> "created"]),
            active |-> act, ok |-> FALSE, port |-> 0]
      [] k \in {"inspect_err", "no_port"} ->
           [containers |-> Append(cs, [port |-> p, st |-> "running"]),
            active |-> act, ok |-> FALSE, port |-> 0]
      [] OTHER ->
           [containers |-> Append(cs, [port |-> p, st |-> "running"]),
            active |-> [act EXCEPT ![p] = Len(cs) + 1],
            ok |-> TRUE, port |-> p]

\* Faulty variant: an Err is dropped and the next step runs.
PropagateIgnore(ok, next) == next

\* The `?` after each step of configure_cvm / assign_cvm: go on only on Ok.
Propagate(ok, next) == IF ok THEN next ELSE "idle"

\* Faulty variant: the container is not removed when neither stop nor kill worked.
SweepOneGiveUp(stop_ok, kill_ok, remove_ok) ==
    [stop |-> IF stop_ok THEN "ok" ELSE "err",
     kill |-> IF stop_ok THEN "none" ELSE IF kill_ok THEN "ok" ELSE "err",
     remove |-> IF ~stop_ok /\ ~kill_ok THEN "none"
                ELSE IF remove_ok THEN "ok" ELSE "err"]

\* One container of the shutdown sweep: stop, kill when the stop failed, remove.
SweepOne(stop_ok, kill_ok, remove_ok) ==
    [stop |-> IF stop_ok THEN "ok" ELSE "err",
     kill |-> IF stop_ok THEN "none" ELSE IF kill_ok THEN "ok" ELSE "err",
     remove |-> IF remove_ok THEN "ok" ELSE "err"]

\* The daemon's container after the sweep's calls.
SweptState(st, stop_ok, kill_ok, remove_ok) ==
    IF remove_ok THEN "removed"
    ELSE IF stop_ok \/ kill_ok THEN "exited"
    ELSE st

\* ---------------------------------------------------------- CvmClient state
VARIABLES
    cl,           \* the CvmClient: [is_attested, cert, attests], or NoClient
    cret,         \* the last return of a client call, with the requests it sent
    evidence      \* what the attest that set is_attested had in hand

clientVars == <<cl, cret, evidence>>

\* --------------------------------------------------------- Host Bridge state
VARIABLES
    kx,           \* the last GetSealingKey / get_key exchange and its HTTP answer
    rd            \* get_key reading one response frame: the loop and its stream

keyVars == <<kx, rd>>

VARIABLES
    srv,          \* start_server_in_thread: where it stands and what it holds
    file,         \* <vm_dir>/shared/.instance_info
    nreq,         \* the Notify request each worker thread is handling
    received,     \* payloads of the "instance.info" requests received so far
    sch           \* the bridge's runtime: workers inside get_key, tasks not yet polled

bridgeVars == <<srv, file, nreq, received, sch>>

\* ------------------------------------------------------ Tenant Gateway state
VARIABLES
    server,       \* the gateway process: "init" | "serving" | "stopping" | "exited"
    holder,       \* the task holding AppState::manager (the pool mutex)
    gpc,          \* where each task stands: handlers of /assign_cvm, signal task
    gresp,        \* the last HTTP status each handler answered
    shutdown_tx,  \* AppState::shutdown_tx still holds the Sender
    stops,        \* stop signals sent to the HTTP server
    mgr_shutdown, \* Manager::shutdown: "none" | "running" | "done"
    sweep_left    \* containers the running shutdown has still to sweep

gwVars == <<server, holder, gpc, gresp, shutdown_tx, stops, mgr_shutdown, sweep_left>>

\* --------------------------------------------------------- Host Runner state
VARIABLES
    rn,           \* the last call into host_runner: its arguments and result
    vm            \* the DStackManager's tracked children and the calls on it

runnerVars == <<rn, vm>>

hostVars == <<keyVars, bridgeVars, gwVars, runnerVars>>

\* The key provider has not been reached.
NotServed == [heard |-> FALSE, got |-> <<>>, reply |-> <<>>]

\* Result<QuoteResponse, QuoteError>.
KeyErr(kind) == [ok |-> FALSE, err |-> kind, encrypted_key |-> <<>>, provider_quote |-> <<>>]
KeyOk(e, p) == [ok |-> TRUE, err |-> "none", encrypted_key |-> e, provider_quote |-> p]

\* Nothing sent by a key provider of its own making: payload, the payload it
\* declares; sent, the bytes of the frame it sends before it closes.
NoWire == [payload |-> <<>>, sent |-> <<-1>>]

\* No use of the network: connects, the calls of TcpStream::connect; opened,
\* the connections they established; frames, the request frames written whole.
NoTcp == [connects |-> 0, opened |-> 0, frames |-> 0]

\* No HTTP answer.
NoHttp == [status |-> 0, error |-> "none", encrypted_key |-> <<>>, provider_quote |-> <<>>]

\* No exchange in hand: fn, the function entered; q, the quote meant; body,
\* the HTTP body; connected, expected, e and p, the key provider's side; frame,
\* the bytes written to it; served, what it made of them; res, the result of
\* get_key; http, the answer of the handler; wire, what a provider of its own
\* making sent; tcp, the use made of the network.
NoExchange ==
    [fn |-> "none", q |-> <<>>, body |-> [json |-> FALSE, quote |-> <<>>],
     connected |-> FALSE, expected |-> <<>>, e |-> <<>>, p |-> <<>>,
     frame |-> <<>>, served |-> NotServed, res |-> KeyErr("none"), http |-> NoHttp,
     wire |-> NoWire, tcp |-> NoTcp]

\* get_key is not reading: declared, the length the prefix announces; sent,
\* the payload bytes the provider sends before it closes; consumed, the bytes
\* taken from the stream after the prefix; received, response_data.len();
\* buffer, the length of the last buffer; bytes_read, what the last read
\* returned; short, the reads that returned less than they could; ret, how
\* the loop ended; parsed, the length of the payload given to the parser.
NotReading ==
    [pc |-> "idle", declared |-> 0, sent |-> 0, consumed |-> 0, received |-> 0,
     remaining |-> 0, buffer |-> 0, bytes_read |-> 0, short |-> 0,
     ret |-> "none", parsed |-> -1]

InitKey == kx = NoExchange /\ rd = NotReading

\* The ephemeral ports the loopback listener can be bound to.
ListenPorts == 1..MaxPorts

\* The worker threads of the bridge's runtime (tokio::runtime::Runtime::new()
\* builds the multi-threaded scheduler).
Workers == 1..MaxWorkers

NoServer ==
    [pc |-> "start", rt |-> FALSE, listener |-> 0, server_addr |-> 0,
     thread |-> FALSE, serving |-> 0, bind |-> "none",
     ret |-> [state |-> "none", addr |-> 0]]

NoFile == [exists |-> FALSE, data |-> <<>>]

NoNotify == [pc |-> "idle", event |-> "none", payload |-> <<>>, status |-> 0]

\* The runtime's scheduler at rest: blocked, the worker threads that are inside
\* the synchronous get_key of a GetSealingKey handler; pending, the Notify
\* requests whose task was spawned and which no worker has polled yet.
NoSched == [blocked |-> {}, pending |-> 0]

InitBridge ==
    /\ srv = NoServer
    /\ file = NoFile
    /\ nreq = [w \in Workers |-> NoNotify]
    /\ received = {}
    /\ sch = NoSched

\* The tasks of the gateway: the /assign_cvm handlers in flight and the task
\* spawned on handle_shutdown_signals.
Handlers == 1..MaxHandlers
SigTask == 0
Tasks == Handlers \cup {SigTask}
NoTask == -1

InitGateway ==
    /\ server = "init"
    /\ holder = NoTask
    /\ gpc = [t \in Tasks |-> IF t = SigTask THEN "wait" ELSE "idle"]
    /\ gresp = [h \in Handlers |-> 0]
    /\ shutdown_tx = TRUE
    /\ stops = 0
    /\ mgr_shutdown = "none"
    /\ sweep_left = 0

NoRun == [fn |-> "none"]

RunThreads == 1..MaxRunThreads

\* No child process.
NoChild == 0

\* A thread outside run_instance.
IdleRun == [pc |-> 0, pending |-> {}, child |-> NoChild]

\* No run_instance has returned yet.
NoReturn == [ret |-> "none", child |-> NoChild, tracked |-> FALSE]

\* shutdown_instances is not running.
IdleSweep == [pc |-> "idle", snapshot |-> <<>>, i |-> 0, kill_sent |-> {}, waited |-> {}]

InitRunner ==
    /\ rn = NoRun
    /\ vm = [qemu_processes |-> <<>>, holder |-> "none", spawned |-> 0,
             alive |-> {}, run |-> [t \in RunThreads |-> IdleRun],
             last |-> NoReturn, sd |-> IdleSweep]

InitHost == InitKey /\ InitBridge /\ InitGateway /\ InitRunner

vars == <<poolVars, clientVars, hostVars>>

Certs == 1..MaxCerts
NoClient == [is_attested |-> FALSE, cert |-> 0, attests |-> FALSE]
NoCall == [fn |-> "none", ok |-> FALSE, err |-> "none", events |-> <<>>,
           was_attested |-> FALSE, verifies |-> 0]
NoEvidence == [fetched |-> FALSE, hash_ok |-> FALSE,
               quote |-> [json |-> FALSE, hex |-> FALSE, valid |-> FALSE,
                          td10 |-> FALSE, rd |-> <<>>]]

InitClient ==
    /\ cl = NoClient
    /\ cret = NoCall
    /\ evidence = NoEvidence

InitPool ==
    /\ mgr = "none"
    /\ pool_size = 0
    /\ capacity = 0
    /\ free = <<>>
    /\ active = NoActive
    /\ containers = <<>>
    /\ pc = "idle"
    /\ op = "none"
    /\ chosen = 0
    /\ trace = <<>>
    /\ sd_todo = {}
    /\ sd_reg = {}
    /\ sd_log = NoLog
    /\ ret = NoRet
    /\ scan = NoScan
    /\ taken = <<>>
    /\ handed = <<>>
    /\ collided = FALSE
    /\ shut = FALSE

Init == InitPool /\ InitClient /\ InitHost

\* Manager::new up to the call of fill_cvm_pool.
New ==
    /\ UNCHANGED <<clientVars, hostVars, scan>>
    /\ pc = "idle"
    /\ mgr = "none"
    /\ \E ps \in 0..MaxPool, pull_ok \in BOOLEAN :
         IF pull_ok
         THEN /\ mgr' = "building"
              /\ pool_size' = ps
              /\ capacity' = with_capacity(ps)
              /\ pc' = "fill"
              /\ op' = "new"
              /\ ret' = NoRet
         ELSE /\ mgr' = "dropped"
              /\ ret' = [fn |-> "new", ok |-> FALSE, port |-> 0, err |-> "docker"]
              /\ UNCHANGED <<pool_size, capacity, pc, op>>
    /\ free' = <<>>
    /\ active' = NoActive
    /\ UNCHANGED <<containers, chosen, trace, sd_todo, sd_reg, sd_log, taken,
                   handed, collided, shut>>

\* One iteration of the loop of fill_cvm_pool; an Err of add_cvm_to_pool is
\* propagated by fill_cvm_pool and by its caller.
FillAdd ==
    /\ UNCHANGED <<clientVars, hostVars, scan>>
    /\ pc = "fill"
    /\ FillNeeded(Len(free), capacity)
    /\ \E k \in AddOutcomes, p \in 0..MaxPorts :
         /\ DockerCan(containers, k, p)
         /\ LET r == add_cvm_to_pool(containers, active, k, p) IN
              /\ containers' = r.containers
              /\ active' = r.active
              /\ IF r.ok
                 THEN /\ free' = Append(free, r.port)
                      /\ collided' = (collided \/ active[r.port] # 0)
                      /\ UNCHANGED <<mgr, pc, op, ret, trace>>
                 ELSE /\ mgr' = IF op = "new" THEN "dropped" ELSE mgr
                      /\ pc' = "idle"
                      /\ op' = "none"
                      /\ ret' = [fn |-> op, ok |-> FALSE, port |-> 0, err |-> "docker"]
                      /\ trace' = IF op = "assign_cvm"
                                  THEN <<[step |-> "get_cvm", port |-> 0, ok |-> FALSE]>>
                                  ELSE trace
                      /\ UNCHANGED <<free, collided>>
    /\ UNCHANGED <<pool_size, capacity, chosen, sd_todo, sd_reg, sd_log, taken,
                   handed, shut>>

\* fill_cvm_pool leaves its loop and returns Ok to new, or to get_cvm, which
\* returns the chosen port.
FillDone ==
    /\ UNCHANGED <<clientVars, hostVars, scan>>
    /\ pc = "fill"
    /\ ~FillNeeded(Len(free), capacity)
    /\ IF op = "new"
       THEN /\ mgr' = "live"
            /\ ret' = [fn |-> "new", ok |-> TRUE, port |-> 0, err |-> "none"]
            /\ pc' = "idle"
            /\ op' = "none"
            /\ UNCHANGED <<handed, trace>>
       ELSE /\ ret' = [fn |-> "get_cvm", ok |-> TRUE, port |-> chosen, err |-> "none"]
            /\ handed' = Append(handed, chosen)
            /\ IF op = "assign_cvm"
               THEN /\ pc' = "configure_new"
                    /\ trace' = <<[step |-> "get_cvm", port |-> chosen, ok |-> TRUE]>>
                    /\ UNCHANGED op
               ELSE /\ pc' = "idle"
                    /\ op' = "none"
                    /\ UNCHANGED trace
            /\ UNCHANGED mgr
    /\ UNCHANGED <<pool_size, capacity, free, active, containers, chosen, sd_todo,
                   sd_reg, sd_log, taken, collided, shut>>

\* get_cvm, called directly or as the first step of assign_cvm: the scan of
\* free and the removal of the chosen port. att: the indices whose client is
\* built and attests.
GetCvm ==
    /\ UNCHANGED <<clientVars, hostVars>>
    /\ pc = "idle"
    /\ mgr = "live"
    /\ \E o \in {"get_cvm", "assign_cvm"}, att \in SUBSET (1..Len(free)) :
         LET i == FirstAttested(att) IN
           /\ scan' = att
           /\ IF i = 0
              THEN /\ ret' = [fn |-> o, ok |-> FALSE, port |-> 0, err |-> "NoFreeCvm"]
                   /\ trace' = IF o = "assign_cvm"
                               THEN <<[step |-> "get_cvm", port |-> 0, ok |-> FALSE]>>
                               ELSE <<>>
                   /\ UNCHANGED <<free, taken, chosen, pc, op>>
              ELSE /\ chosen' = free[i]
                   /\ free' = RemoveAt(free, i)
                   /\ taken' = Append(taken, free[i])
                   /\ pc' = "fill"
                   /\ op' = o
                   /\ ret' = NoRet
                   /\ trace' = <<>>
    /\ UNCHANGED <<mgr, pool_size, capacity, active, containers, sd_todo, sd_reg,
                   sd_log, handed, collided, shut>>

\* A step of configure_cvm that leaves the pool alone.
ConfigureStep(at, step, next) ==
    /\ UNCHANGED <<clientVars, hostVars, scan>>
    /\ pc = at
    /\ \E ok \in BOOLEAN :
         /\ trace' = Append(trace, [step |-> step, port |-> chosen, ok |-> ok])
         /\ pc' = Propagate(ok, next)
         /\ IF pc' = "idle"
            THEN /\ op' = "none"
                 /\ ret' = [fn |-> "assign_cvm", ok |-> ok,
                            port |-> IF ok THEN chosen ELSE 0,
                            err |-> IF ok THEN "none" ELSE step]
            ELSE UNCHANGED <<op, ret>>
    /\ UNCHANGED <<mgr, pool_size, capacity, free, active, containers, chosen,
                   sd_todo, sd_reg, sd_log, taken, handed, collided, shut>>

\* configure_cvm: CvmClient::new for the chosen port.
ConfigureNewClient == ConfigureStep("configure_new", "new_client", "configure_attest")

\* configure_cvm: client.attest().
ConfigureAttest == ConfigureStep("configure_attest", "attest", "configure_assign")

\* configure_cvm: client.assign(assign_request).
ConfigureAssign == ConfigureStep("configure_assign", "assign", "configure_run")

\* configure_cvm: client.run(run_request), then Ok(port) from assign_cvm.
ConfigureRun == ConfigureStep("configure_run", "run", "idle")

\* shutdown: drain active and free into container_ids. The sweep ends every
\* handout, so the records of handouts start afresh.
Shutdown ==
    /\ UNCHANGED <<clientVars, hostVars, scan>>
    /\ pc = "idle"
    /\ mgr = "live"
    /\ LET fromActive == {active[p] : p \in Registered(active)}
           \* the second loop looks the free ports up in the map just drained
           fromFree == {NoActive[free[i]] : i \in 1..Len(free)} \ {0}
       IN /\ sd_todo' = fromActive \cup fromFree
          /\ sd_reg' = fromActive
    /\ active' = NoActive
    /\ free' = Emptied(free)
    /\ shut' = TRUE
    /\ pc' = "sweep"
    /\ op' = "shutdown"
    /\ ret' = NoRet
    /\ trace' = <<>>
    /\ chosen' = 0
    /\ taken' = <<>>
    /\ handed' = <<>>
    /\ collided' = FALSE
    /\ UNCHANGED <<mgr, pool_size, capacity, containers, sd_log>>

\* shutdown: one container of the sweep (stop, kill, remove).
ShutdownSweep ==
    /\ UNCHANGED <<clientVars, hostVars, scan>>
    /\ pc = "sweep"
    /\ \E id \in sd_todo, stop_ok \in BOOLEAN, kill_ok \in BOOLEAN, remove_ok \in BOOLEAN :
         /\ sd_todo' = sd_todo \ {id}
         /\ sd_log' = [sd_log EXCEPT ![id] = SweepOne(stop_ok, kill_ok, remove_ok)]
         /\ containers' = [containers EXCEPT ![id].st =
                              SweptState(@, stop_ok, ~stop_ok /\ kill_ok, remove_ok)]
    /\ UNCHANGED <<mgr, pool_size, capacity, free, active, pc, op, chosen, trace,
                   sd_reg, ret, taken, handed, collided, shut>>

\* shutdown: the sweep is over; clear both collections and return Ok.
ShutdownDone ==
    /\ UNCHANGED <<clientVars, hostVars, scan>>
    /\ pc = "sweep"
    /\ sd_todo = {}
    /\ free' = Emptied(free)
    /\ active' = NoActive
    /\ ret' = [fn |-> "shutdown", ok |-> TRUE, port |-> 0, err |-> "none"]
    /\ pc' = "idle"
    /\ op' = "none"
    /\ UNCHANGED <<mgr, pool_size, capacity, containers, chosen, trace, sd_todo,
                   sd_reg, sd_log, taken, handed, collided, shut>>

\* A running container exits on its own; the daemon releases its host port
\* (of interest while the pool can still register new containers).
ContainerExit ==
    /\ UNCHANGED <<clientVars, hostVars, scan>>
    /\ ~shut
    /\ \E id \in Running(containers) :
         containers' = [containers EXCEPT ![id].st = "exited"]
    /\ UNCHANGED <<mgr, pool_size, capacity, free, active, pc, op, chosen, trace,
                   sd_todo, sd_reg, sd_log, ret, taken, handed, collided, shut>>

Next ==
    \/ New
    \/ FillAdd
    \/ FillDone
    \/ GetCvm
    \/ ConfigureNewClient
    \/ ConfigureAttest
    \/ ConfigureAssign
    \/ ConfigureRun
    \/ Shutdown
    \/ ShutdownSweep
    \/ ShutdownDone
    \/ ContainerExit

Spec == Init /\ [][Next]_vars


\* ================================================================ CvmClient
\* What the network can answer to one request: the certificate the TLS peer
\* presents, and how the exchange ends.
Resps == [peer : Certs, status : {"ok", "non2xx", "transport"}]

\* generate_sha512_hash: the digest is modelled by its preimage (no collisions).
generate_sha512_hash(report_data, prefix) == <<"sha512", prefix, ":", report_data>>

\* The line `openssl dgst -sha256` prints for the certificate's public key,
\* split at "= ".
DgstLine(cert) == <<"SHA2-256(stdin)", <<"sha256", "pubkey", cert>>>>

\* get_certificate_hash: the text after "= ", hashed with the "app-data" prefix.
get_certificate_hash(cert) == generate_sha512_hash(DgstLine(cert)[2], "app-data")

\* The bodies a peer can return for GET /quote: json, the body parses as a
\* QuoteResponse; hex, the quote hex-decodes; valid, it verifies against the
\* collateral; td10, the verified report is a TD1.0 report; rd, its report_data.
Quotes == [json : BOOLEAN, hex : BOOLEAN, valid : BOOLEAN, td10 : BOOLEAN,
           rd : {get_certificate_hash(c) : c \in Certs}]

\* The TLS handshake of the reqwest client, built with
\* danger_accept_invalid_certs(true): whatever certificate the peer presents.
TlsAccepts(c, peer) == TRUE

\* Faulty variant: no request ever waits for an attestation.
NeedsAttestNever(c, path) == FALSE

\* Faulty variant: every request other than "quote" attests again.
NeedsAttestAlways(c, path) == path # "quote"

\* The gate at the head of make_request.
NeedsAttest(c, path) == ~c.is_attested /\ path # "quote"

\* One request put on the wire by client c.
Sent(c, path, r) ==
    [path |-> path, peer |-> r.peer, after_attest |-> c.attests]

\* Faulty variant: a request that fails clears is_attested.
execute_forgetting(c, path, r) ==
    [client |-> IF r.status = "ok" THEN c ELSE [c EXCEPT !.is_attested = FALSE],
     ok |-> r.status = "ok",
     err |-> IF r.status = "ok" THEN "none" ELSE r.status,
     events |-> <<Sent(c, path, r)>>, verifies |-> 0]

\* make_request behind the gate: execute, then the status check. verifies
\* counts the runs of verify_quote_and_report_data in the call.
execute(c, path, r) ==
    [client |-> c, ok |-> r.status = "ok",
     err |-> IF r.status = "ok" THEN "none" ELSE r.status,
     events |-> <<Sent(c, path, r)>>, verifies |-> 0]

\* get_quote: GET /quote and the parse of its body.
get_quote(c, r, q) ==
    LET x == execute(c, "quote", r) IN
      IF x.ok /\ ~q.json THEN [x EXCEPT !.ok = FALSE, !.err = "parse"] ELSE x

\* Faulty variant: the report_data of the quote is not compared.
verify_quote_unbound(q, expected) == q.hex /\ q.valid /\ q.td10

\* verify_quote_and_report_data (with verify_quote_from_pccs).
verify_quote_and_report_data(q, expected) ==
    /\ q.hex
    /\ q.valid
    /\ q.td10
    /\ q.rd = expected

\* attest: r and q answer GET /quote; hash_ok, the openssl pipeline worked.
attest(c, r, q, hash_ok) ==
    LET g == get_quote(c, r, q) IN
      IF c.is_attested
      THEN g
      ELSE IF ~g.ok THEN [g EXCEPT !.err = "attest"]
      ELSE IF ~hash_ok THEN [g EXCEPT !.ok = FALSE, !.err = "attest"]
      ELSE IF verify_quote_and_report_data(q, get_certificate_hash(c.cert))
           THEN [g EXCEPT !.client = [c EXCEPT !.is_attested = TRUE, !.attests = TRUE],
                          !.verifies = 1]
           ELSE [g EXCEPT !.ok = FALSE, !.err = "attest", !.verifies = 1]

\* make_request for a path other than "quote": ra, q and hash_ok serve the
\* attestation it may trigger, r answers its own request.
make_request(c, path, ra, q, hash_ok, r) ==
    IF NeedsAttest(c, path)
    THEN LET a == attest(c, ra, q, hash_ok) IN
           IF ~a.ok
           THEN a
           ELSE LET x == execute(a.client, path, r) IN
                  [x EXCEPT !.events = a.events \o x.events,
                            !.verifies = a.verifies + x.verifies]
    ELSE execute(c, path, r)

\* What a client call leaves behind.
Returned(fn, res, ra, q, hash_ok) ==
    /\ cl' = res.client
    /\ cret' = [fn |-> fn, ok |-> res.ok, err |-> res.err, events |-> res.events,
                was_attested |-> cl.is_attested, verifies |-> res.verifies]
    /\ evidence' = IF res.client.is_attested /\ ~cl.is_attested
                   THEN [fetched |-> ra.status = "ok", hash_ok |-> hash_ok, quote |-> q]
                   ELSE evidence

\* CvmClient::new: the certificate fetched with openssl s_client is kept at
\* cert_path (0: the fetch failed and no client is built).
ClientNew ==
    /\ UNCHANGED <<poolVars, hostVars>>
    /\ \E fetched \in Certs \cup {0} :
         /\ cl' = IF fetched = 0 THEN NoClient
                  ELSE [is_attested |-> FALSE, cert |-> fetched, attests |-> FALSE]
         /\ cret' = [NoCall EXCEPT !.fn = "new", !.ok = fetched # 0,
                                   !.err = IF fetched = 0 THEN "cert" ELSE "none"]
    /\ evidence' = NoEvidence

\* CvmClient::attest.
ClientAttest ==
    /\ UNCHANGED <<poolVars, hostVars>>
    /\ cl # NoClient
    /\ \E r \in Resps, q \in Quotes, hash_ok \in BOOLEAN :
         /\ TlsAccepts(cl, r.peer)
         /\ Returned("attest", attest(cl, r, q, hash_ok), r, q, hash_ok)

\* CvmClient::get_quote, called on its own.
ClientGetQuote ==
    /\ UNCHANGED <<poolVars, hostVars>>
    /\ cl # NoClient
    /\ \E r \in Resps, q \in Quotes :
         /\ TlsAccepts(cl, r.peer)
         /\ Returned("get_quote", get_quote(cl, r, q), r, q, FALSE)

\* assign, run or is_assigned: each is one make_request.
ClientRpc(path) ==
    /\ UNCHANGED <<poolVars, hostVars>>
    /\ cl # NoClient
    /\ \E ra \in Resps, q \in Quotes, hash_ok \in BOOLEAN, r \in Resps :
         /\ TlsAccepts(cl, ra.peer)
         /\ TlsAccepts(cl, r.peer)
         /\ Returned(path, make_request(cl, path, ra, q, hash_ok, r), ra, q, hash_ok)

\* CvmClient::assign.
ClientAssign == ClientRpc("assign")

\* CvmClient::run.
ClientRun == ClientRpc("run")

\* CvmClient::is_assigned.
ClientIsAssigned == ClientRpc("is_assigned")

NextClient ==
    \/ ClientNew
    \/ ClientAttest
    \/ ClientGetQuote
    \/ ClientAssign
    \/ ClientRun
    \/ ClientIsAssigned

SpecClient == Init /\ [][NextClient]_vars

\* ============================================================== Host Bridge
\* ----------------------------------------------------------- bytes and JSON
\* The u8 values the byte strings are built from: one, three decimal digits; a
\* leading and no leading zero in hex.
Bytes == {7, 255}

\* Vec<u8> up to the bound.
ByteSeqs == UNION {[1..n -> Bytes] : n \in 0..MaxQuoteLen}

DigitChar == <<"0", "1", "2", "3", "4", "5", "6", "7", "8", "9">>
DigitSet == {DigitChar[i] : i \in 1..10}
DigitVal(c) == (CHOOSE i \in 1..10 : DigitChar[i] = c) - 1

\* The decimal text serde_json writes for an unsigned integer.
RECURSIVE Decimal(_)
Decimal(n) ==
    IF n < 10 THEN <<DigitChar[n + 1]>>
    ELSE Decimal(n \div 10) \o <<DigitChar[(n % 10) + 1]>>

\* The texts of a sequence, separated by commas.
RECURSIVE Separated(_)
Separated(texts) ==
    IF texts = <<>> THEN <<>>
    ELSE IF Len(texts) = 1 THEN texts[1]
    ELSE texts[1] \o <<",">> \o Separated(Tail(texts))

\* serde_json::to_vec of an array of u8 numbers (compact, no white space).
JsonArray(bs) == <<"[">> \o Separated([i \in 1..Len(bs) |-> Decimal(bs[i])]) \o <<"]">>

\* serde_json::to_vec of a string without characters to escape.
JsonString(cs) == <<"\"">> \o cs \o <<"\"">>

\* serde_json::to_vec of an object: members is a sequence of <<key, text>>.
JsonObject(members) ==
    <<"{">>
    \o Separated([i \in 1..Len(members) |->
                    JsonString(members[i][1]) \o <<":">> \o members[i][2]])
    \o <<"}">>

QuoteKey == <<"q", "u", "o", "t", "e">>
EncryptedKeyKey == <<"e", "n", "c", "r", "y", "p", "t", "e", "d", "_", "k", "e", "y">>
ProviderQuoteKey == <<"p", "r", "o", "v", "i", "d", "e", "r", "_", "q", "u", "o", "t", "e">>

\* serde_json::Value, as far as the exchange needs it: t is the kind; n and
\* u64 the number and whether as_u64 yields it; items the elements of an
\* array, the members [k, val] of an object or the characters of a string.
JNull == [t |-> "null", n |-> 0, u64 |-> FALSE, items |-> <<>>]
JNum(n, isU64) == [t |-> "num", n |-> n, u64 |-> isU64, items |-> <<>>]
JStr(cs) == [t |-> "str", n |-> 0, u64 |-> FALSE, items |-> cs]
JArr(vs) == [t |-> "arr", n |-> 0, u64 |-> FALSE, items |-> vs]
JObj(ms) == [t |-> "obj", n |-> 0, u64 |-> FALSE, items |-> ms]

ParseErr == [ok |-> FALSE, val |-> JNull, rest |-> <<>>]
Parsed(v, rest) == [ok |-> TRUE, val |-> v, rest |-> rest]

\* The digits at the head of cs, read as a number.
RECURSIVE ParseDigits(_, _)
ParseDigits(cs, acc) ==
    IF cs # <<>> /\ Head(cs) \in DigitSet
    THEN ParseDigits(Tail(cs), acc * 10 + DigitVal(Head(cs)))
    ELSE [n |-> acc, rest |-> cs]

\* A JSON number: optional minus, digits without a leading zero, optional
\* fraction. as_u64 yields it when it is a non-negative integer; items keeps
\* the digits of the integer part.
ParseNumber(cs) ==
    LET neg == Head(cs) = "-"
        body == IF neg THEN Tail(cs) ELSE cs
        d == ParseDigits(body, 0)
        nd == Len(body) - Len(d.rest)
        frac == d.rest # <<>> /\ Head(d.rest) = "."
        f == IF frac THEN ParseDigits(Tail(d.rest), 0) ELSE d
    IN IF nd = 0 \/ (nd > 1 /\ Head(body) = "0") THEN ParseErr
       ELSE IF frac /\ Len(f.rest) = Len(d.rest) - 1 THEN ParseErr
       ELSE Parsed([JNum(d.n, ~neg /\ ~frac) EXCEPT !.items = SubSeq(body, 1, nd)],
                   f.rest)

\* JSON white space, which the parser skips between tokens.
Whitespace == {" ", "\n", "\t", "\r"}

RECURSIVE SkipWs(_)
SkipWs(cs) ==
    IF cs # <<>> /\ Head(cs) \in Whitespace THEN SkipWs(Tail(cs)) ELSE cs

\* The character an escape stands for (the escapes \b, \f and \u are left out).
Escapes == {<<"\"", "\"">>, <<"\\", "\\">>, <<"/", "/">>,
            <<"n", "\n">>, <<"t", "\t">>, <<"r", "\r">>}

\* The characters up to the closing quote of a string, escapes decoded; a
\* control character inside a string is an error.
RECURSIVE UntilQuote(_, _)
UntilQuote(cs, acc) ==
    IF cs = <<>> THEN ParseErr
    ELSE IF Head(cs) = "\"" THEN Parsed(JStr(acc), Tail(cs))
    ELSE IF Head(cs) \in {"\n", "\t", "\r"} THEN ParseErr
    ELSE IF Head(cs) = "\\" THEN
           IF Len(cs) < 2 \/ \A e \in Escapes : e[1] # cs[2] THEN ParseErr
           ELSE UntilQuote(SubSeq(cs, 3, Len(cs)),
                           Append(acc, (CHOOSE e \in Escapes : e[1] = cs[2])[2]))
    ELSE UntilQuote(Tail(cs), Append(acc, Head(cs)))

RECURSIVE ParseValue(_)
RECURSIVE ParseElements(_, _)
RECURSIVE ParseMembers(_, _)

\* One JSON value at the head of text, after white space.
ParseValue(text) ==
    LET cs == SkipWs(text) IN
    IF cs = <<>> THEN ParseErr
    ELSE CASE Head(cs) = "[" ->
                IF SkipWs(Tail(cs)) # <<>> /\ Head(SkipWs(Tail(cs))) = "]"
                THEN Parsed(JArr(<<>>), Tail(SkipWs(Tail(cs))))
                ELSE ParseElements(Tail(cs), <<>>)
           [] Head(cs) = "{" ->
                IF SkipWs(Tail(cs)) # <<>> /\ Head(SkipWs(Tail(cs))) = "}"
                THEN Parsed(JObj(<<>>), Tail(SkipWs(Tail(cs))))
                ELSE ParseMembers(Tail(cs), <<>>)
           [] Head(cs) = "\"" -> UntilQuote(Tail(cs), <<>>)
           [] Head(cs) \in DigitSet \cup {"-"} -> ParseNumber(cs)
           [] OTHER -> ParseErr

\* The elements of an array after its "[".
ParseElements(cs, acc) ==
    LET v == ParseValue(cs)
        rest == SkipWs(v.rest)
    IN IF ~v.ok \/ rest = <<>> THEN ParseErr
       ELSE IF Head(rest) = "," THEN ParseElements(Tail(rest), Append(acc, v.val))
       ELSE IF Head(rest) = "]" THEN Parsed(JArr(Append(acc, v.val)), Tail(rest))
       ELSE ParseErr

\* The members of an object after its "{".
ParseMembers(text, acc) ==
    LET cs == SkipWs(text) IN
    IF cs = <<>> \/ Head(cs) # "\"" THEN ParseErr
    ELSE LET k == UntilQuote(Tail(cs), <<>>)
             colon == SkipWs(k.rest)
         IN
           IF ~k.ok \/ colon = <<>> \/ Head(colon) # ":" THEN ParseErr
           ELSE LET v == ParseValue(Tail(colon))
                    m == [k |-> k.val.items, val |-> v.val]
                    rest == SkipWs(v.rest)
                IN IF ~v.ok \/ rest = <<>> THEN ParseErr
                   ELSE IF Head(rest) = "," THEN ParseMembers(Tail(rest), Append(acc, m))
                   ELSE IF Head(rest) = "}" THEN Parsed(JObj(Append(acc, m)), Tail(rest))
                   ELSE ParseErr

\* serde_json::from_slice::<Value>: one value and nothing but white space
\* after it.
from_slice(cs) ==
    LET r == ParseValue(cs) IN
      IF r.ok /\ SkipWs(r.rest) = <<>> THEN [r EXCEPT !.rest = <<>>] ELSE ParseErr

\* value[key]: the member of that name (the last one given), Null otherwise.
Index(v, key) ==
    LET at == {i \in 1..Len(v.items) : v.items[i].k = key} IN
      IF v.t # "obj" \/ at = {} THEN JNull
      ELSE v.items[CHOOSE i \in at : \A j \in at : j <= i].val

\* v.as_u64().unwrap_or(0) as u8, over the elements of an array.
AsBytes(items) ==
    [i \in 1..Len(items) |->
        IF items[i].t = "num" /\ items[i].u64 THEN items[i].n % 256 ELSE 0]

\* ---------------------------------------------------------------- hex crate
HexChar == <<"0", "1", "2", "3", "4", "5", "6", "7", "8", "9",
             "a", "b", "c", "d", "e", "f">>
HexUpper == <<"0", "1", "2", "3", "4", "5", "6", "7", "8", "9",
              "A", "B", "C", "D", "E", "F">>
HexSet == {HexChar[i] : i \in 1..16} \cup {HexUpper[i] : i \in 1..16}
NibbleVal(c) == (CHOOSE i \in 1..16 : HexChar[i] = c \/ HexUpper[i] = c) - 1

\* hex::encode: two lower-case digits per byte, high nibble first.
RECURSIVE hex_encode(_)
hex_encode(bs) ==
    IF bs = <<>> THEN <<>>
    ELSE <<HexChar[(Head(bs) \div 16) + 1], HexChar[(Head(bs) % 16) + 1]>>
         \o hex_encode(Tail(bs))

\* Faulty variant: the two digits of a byte are read low nibble first.
hex_decode_swapped(cs) ==
    IF Len(cs) % 2 # 0 \/ \E i \in 1..Len(cs) : cs[i] \notin HexSet
    THEN [ok |-> FALSE, bytes |-> <<>>]
    ELSE [ok |-> TRUE,
          bytes |-> [i \in 1..(Len(cs) \div 2) |->
                        NibbleVal(cs[2 * i]) * 16 + NibbleVal(cs[2 * i - 1])]]

\* hex::decode: an even number of hex digits of either case.
hex_decode(cs) ==
    IF Len(cs) % 2 # 0 \/ \E i \in 1..Len(cs) : cs[i] \notin HexSet
    THEN [ok |-> FALSE, bytes |-> <<>>]
    ELSE [ok |-> TRUE,
          bytes |-> [i \in 1..(Len(cs) \div 2) |->
                        NibbleVal(cs[2 * i - 1]) * 16 + NibbleVal(cs[2 * i])]]

\* ------------------------------------------------------ key-provider framing
\* Faulty variant: the length written counts the four bytes of the prefix too.
to_be_bytes_incl(n) ==
    <<((n + 4) \div 16777216) % 256, ((n + 4) \div 65536) % 256,
      ((n + 4) \div 256) % 256, (n + 4) % 256>>

\* (len as u32).to_be_bytes(): the low 32 bits, most significant byte first.
to_be_bytes(n) ==
    <<(n \div 16777216) % 256, (n \div 65536) % 256, (n \div 256) % 256, n % 256>>

\* u32::from_be_bytes.
from_be_bytes(b) == ((b[1] * 256 + b[2]) * 256 + b[3]) * 256 + b[4]

\* What get_key writes on the connection: the length, then the payload.
KeyRequestFrame(quote) ==
    LET serialized == JsonObject(<<<<QuoteKey, JsonArray(quote)>>>>) IN
      to_be_bytes(Len(serialized)) \o serialized

\* MockKeyProvider::with_response: the payload the provider answers with.
with_response(e, p) ==
    JsonObject(<<<<EncryptedKeyKey, JsonArray(e)>>, <<ProviderQuoteKey, JsonArray(p)>>>>)

\* MockKeyProvider::handle_connection on the bytes the client wrote: heard and
\* got, the quote it decoded; reply, the bytes it writes before it closes.
handle_connection(stream, expected, response) ==
    IF Len(stream) < 4 THEN NotServed
    ELSE LET length == from_be_bytes(SubSeq(stream, 1, 4)) IN
      IF Len(stream) - 4 < length THEN NotServed
      ELSE LET request == from_slice(SubSeq(stream, 5, 4 + length))
               quote == Index(request.val, QuoteKey)
           IN IF ~request.ok \/ quote.t # "arr" THEN NotServed
              ELSE [heard |-> TRUE,
                    got |-> AsBytes(quote.items),
                    reply |-> IF AsBytes(quote.items) = expected
                              THEN to_be_bytes(Len(response)) \o response
                              ELSE <<>>]

\* QuoteResponse::from_json.
from_json(data) ==
    LET ek == Index(data, EncryptedKeyKey)
        pq == Index(data, ProviderQuoteKey)
    IN IF ek.t # "arr" \/ pq.t # "arr" THEN KeyErr("Data")
       ELSE KeyOk(AsBytes(ek.items), AsBytes(pq.items))

\* Faulty variant: a payload that does not parse is reported as a Data error.
get_key_data(quote, connected, reply) ==
    IF ~connected THEN KeyErr("Io")
    ELSE IF Len(reply) < 4 THEN KeyErr("Io")
    ELSE LET response_length == from_be_bytes(SubSeq(reply, 1, 4)) IN
      IF Len(reply) - 4 < response_length THEN KeyErr("ConnectionClosed")
      ELSE LET response_json == from_slice(SubSeq(reply, 5, 4 + response_length)) IN
             IF ~response_json.ok THEN KeyErr("Data")
             ELSE from_json(response_json.val)

\* get_key: connected, whether the TCP connect and the writes succeed; reply,
\* the bytes the provider sends before it closes the connection.
get_key(quote, connected, reply) ==
    IF ~connected THEN KeyErr("Io")
    ELSE IF Len(reply) < 4 THEN KeyErr("Io")
    ELSE LET response_length == from_be_bytes(SubSeq(reply, 1, 4)) IN
      IF Len(reply) - 4 < response_length THEN KeyErr("ConnectionClosed")
      ELSE LET response_json == from_slice(SubSeq(reply, 5, 4 + response_length)) IN
             IF ~response_json.ok THEN KeyErr("Json")
             ELSE from_json(response_json.val)

\* ------------------------------------------------------------- HTTP answers
QuoteErrors == {"Io", "Json", "ConnectionClosed", "RequestTooLarge", "NotFound", "Data"}

\* Faulty variant: every error is answered as an internal server error.
into_response_all500(err) ==
    [NoHttp EXCEPT !.status = 500, !.error = "Internal server error"]

\* impl IntoResponse for QuoteError: the status and the "error" text of the body.
into_response(err) ==
    CASE err = "RequestTooLarge" ->
           [NoHttp EXCEPT !.status = 400, !.error = "Request body too large"]
      [] err = "NotFound" ->
           [NoHttp EXCEPT !.status = 404, !.error = "Not found"]
      [] OTHER ->
           [NoHttp EXCEPT !.status = 500, !.error = "Internal server error"]

\* get_sealing_key up to the call of get_key: the body parsed as a
\* QuoteRequest (json: whether it parses) and its quote hex-decoded.
DecodeQuote(body) ==
    IF ~body.json THEN [ok |-> FALSE, err |-> "Json", bytes |-> <<>>]
    ELSE LET d == hex_decode(body.quote) IN
           IF d.ok THEN [ok |-> TRUE, err |-> "none", bytes |-> d.bytes]
           ELSE [ok |-> FALSE, err |-> "Data", bytes |-> <<>>]

\* get_sealing_key after get_key returned: both arrays hex-encoded, or the
\* error turned into its answer.
KeyResponse(res) ==
    IF res.ok
    THEN [NoHttp EXCEPT !.status = 200,
                        !.encrypted_key = hex_encode(res.encrypted_key),
                        !.provider_quote = hex_encode(res.provider_quote)]
    ELSE into_response(res.err)

\* Faulty variant: the key provider is dialled before the body is looked at.
KeyCallsEager(d) == 1

\* The calls of get_key one get_sealing_key makes: one, after the body parsed
\* and the quote decoded; none when it returned before.
KeyCalls(d) == IF d.ok THEN 1 ELSE 0

\* The use get_key makes of the network in `calls` calls: one
\* TcpStream::connect each, and on the stream it returns one write_all of the
\* length and one of the payload.  opened: the connect succeeded; connected:
\* the connect and both writes succeeded.
Dial(calls, opened, connected) ==
    [connects |-> calls,
     opened |-> IF opened \/ connected THEN calls ELSE 0,
     frames |-> IF connected THEN calls ELSE 0]

\* ------------------------------------------------------------------ actions
BodyKinds == {"hex", "upper", "odd", "nothex", "notjson"}

\* The bodies a caller can post for the quote q.
Body(q, kind) ==
    CASE kind = "hex" -> [json |-> TRUE, quote |-> hex_encode(q)]
      [] kind = "upper" ->
           [json |-> TRUE,
            quote |-> [i \in 1..(2 * Len(q)) |-> HexUpper[NibbleVal(hex_encode(q)[i]) + 1]]]
      [] kind = "odd" -> [json |-> TRUE, quote |-> hex_encode(q) \o <<"0">>]
      [] kind = "nothex" -> [json |-> TRUE, quote |-> hex_encode(q) \o <<"z", "z">>]
      [] OTHER -> [json |-> FALSE, quote |-> <<>>]

\* A quote the provider expects when it does not expect q.
OtherThan(q) == <<7>> \o q

\* get_key(quote, address, port) against a key provider that expects the quote
\* `expected` and answers it with e and p.
GetKey ==
    /\ UNCHANGED <<poolVars, clientVars, bridgeVars, gwVars, runnerVars, rd>>
    /\ kx = NoExchange
    /\ \E q \in ByteSeqs, e \in ByteSeqs, p \in ByteSeqs,
          match \in BOOLEAN, connected \in BOOLEAN, opened \in BOOLEAN :
         LET expected == IF match THEN q ELSE OtherThan(q)
             frame == IF connected THEN KeyRequestFrame(q) ELSE <<>>
             served == handle_connection(frame, expected, with_response(e, p))
             res == get_key(q, connected, served.reply)
         IN kx' = [fn |-> "get_key", q |-> q, body |-> NoExchange.body,
                   connected |-> connected, expected |-> expected, e |-> e, p |-> p,
                   frame |-> frame, served |-> served, res |-> res, http |-> NoHttp,
                   wire |-> NoWire, tcp |-> Dial(1, opened, connected)]

\* The payloads a key provider of its own making declares: arrays with
\* elements that are not bytes, members that are not arrays, and texts that are
\* not JSON.
ProviderPayloads ==
    {<<"{", "\"", "e", "n", "c", "r", "y", "p", "t", "e", "d", "_", "k", "e", "y", "\"", ":", "[", "7", ",", "3", "0", "0", "]", ",", "\"", "p", "r", "o", "v", "i", "d", "e", "r", "_", "q", "u", "o", "t", "e", "\"", ":", "[", "2", "5", "6", ",", "2", "5", "5", "]", "}">>,
     <<"{", "\"", "e", "n", "c", "r", "y", "p", "t", "e", "d", "_", "k", "e", "y", "\"", ":", "[", "-", "1", ",", "1", ".", "5", ",", "\"", "a", "\"", "]", ",", "\"", "p", "r", "o", "v", "i", "d", "e", "r", "_", "q", "u", "o", "t", "e", "\"", ":", "[", "]", "}">>,
     <<"{", "\"", "e", "n", "c", "r", "y", "p", "t", "e", "d", "_", "k", "e", "y", "\"", ":", "7", ",", "\"", "p", "r", "o", "v", "i", "d", "e", "r", "_", "q", "u", "o", "t", "e", "\"", ":", "[", "]", "}">>,
     <<"[", "]">>,
     <<"{", "\"", "e", "n", "c", "r", "y", "p", "t", "e", "d", "_", "k", "e", "y", "\"", ":", "[", "7">>,
     <<"{", "\"", "e", "n", "c", "r", "y", "p", "t", "e", "d", "_", "k", "e", "y", "\"", ":", "[", "7", ",", "]", ",", "\"", "p", "r", "o", "v", "i", "d", "e", "r", "_", "q", "u", "o", "t", "e", "\"", ":", "[", "]", "}">>,
     <<"[", "]", "x">>,
     <<>>}

\* get_key against a provider that declares a payload and closes the
\* connection after any number of bytes of the frame.
GetKeyFrom ==
    /\ UNCHANGED <<poolVars, clientVars, bridgeVars, gwVars, runnerVars, rd>>
    /\ kx = NoExchange
    /\ \E q \in ByteSeqs, payload \in ProviderPayloads :
         LET whole == to_be_bytes(Len(payload)) \o payload IN
           \E n \in 0..Len(whole) :
              LET sent == SubSeq(whole, 1, n) IN
                kx' = [NoExchange EXCEPT
                         !.fn = "get_key", !.q = q, !.connected = TRUE,
                         !.frame = KeyRequestFrame(q),
                         !.served = [heard |-> TRUE, got |-> q, reply |-> sent],
                         !.res = get_key(q, TRUE, sent),
                         !.wire = [payload |-> payload, sent |-> sent],
                         !.tcp = Dial(1, TRUE, TRUE)]

\* POST /api/GetSealingKey: get_sealing_key on one body.
GetSealingKey ==
    /\ UNCHANGED <<poolVars, clientVars, bridgeVars, gwVars, runnerVars, rd>>
    /\ kx = NoExchange
    /\ \E q \in ByteSeqs, e \in ByteSeqs, p \in ByteSeqs, kind \in BodyKinds,
          match \in BOOLEAN, connected \in BOOLEAN, opened \in BOOLEAN :
         LET body == Body(q, kind)
             d == DecodeQuote(body)
             expected == IF match THEN q ELSE OtherThan(q)
             frame == IF d.ok /\ connected THEN KeyRequestFrame(d.bytes) ELSE <<>>
             served == handle_connection(frame, expected, with_response(e, p))
             res == IF d.ok THEN get_key(d.bytes, connected, served.reply)
                    ELSE KeyErr(d.err)
         IN kx' = [fn |-> "get_sealing_key", q |-> q, body |-> body,
                   connected |-> connected, expected |-> expected, e |-> e, p |-> p,
                   frame |-> frame, served |-> served, res |-> res,
                   http |-> KeyResponse(res), wire |-> NoWire,
                   tcp |-> Dial(KeyCalls(d), opened, connected)]

\* A QuoteError on its way out of a handler: axum turns it into the answer.
IntoResponse ==
    /\ UNCHANGED <<poolVars, clientVars, bridgeVars, gwVars, runnerVars, rd>>
    /\ kx = NoExchange
    /\ \E err \in QuoteErrors :
         kx' = [NoExchange EXCEPT !.fn = "into_response", !.res = KeyErr(err),
                                  !.http = into_response(err)]

\* The answer is sent and the connection to the key provider dropped.
KeyDone ==
    /\ UNCHANGED <<poolVars, clientVars, bridgeVars, gwVars, runnerVars, rd>>
    /\ kx # NoExchange
    /\ kx' = NoExchange

NextKey ==
    \/ GetKey
    \/ GetKeyFrom
    \/ GetSealingKey
    \/ IntoResponse
    \/ KeyDone

SpecKey == Init /\ [][NextKey]_vars

\* ------------------------------------------------- get_key: the read loop
\* The 4096 of std::cmp::min(4096, remaining).
ChunkSize == 4096

Min(a, b) == IF a < b THEN a ELSE b

\* The lengths a response frame declares: empty, tiny, and around each whole
\* number of buffers.
FrameLengths ==
    {0, 1, 2} \cup {k * ChunkSize + d : k \in 1..MaxChunks, d \in {-1, 0, 1}}

\* The payload bytes a provider sends for a frame before it closes: none, one
\* short, all of them, or more than it declared.
SentFor(declared) == {n \in {0, declared - 1, declared, declared + 1, declared + ChunkSize} : n >= 0}

\* Faulty variant: every buffer is a whole chunk.
BufferLenFixed(remaining) == ChunkSize

\* vec![0u8; std::cmp::min(4096, remaining)].len()
BufferLen(remaining) == Min(ChunkSize, remaining)

\* What a short read can return when `most` bytes could be returned.
ShortReads(most) == {n \in {1, 100, most - 1} : 0 < n /\ n < most}

\* read_exact filled response_length_bytes: the loop is entered.
ReadLength ==
    /\ UNCHANGED <<poolVars, clientVars, bridgeVars, gwVars, runnerVars, kx>>
    /\ rd.pc = "idle"
    /\ \E declared \in FrameLengths :
         \E sent \in SentFor(declared) :
            rd' = [NotReading EXCEPT !.pc = "loop", !.declared = declared,
                                     !.sent = sent, !.remaining = declared]

\* One iteration of while remaining > 0: a buffer, one read into it, and
\* either a return or the bytes appended.  A read returns Ok(0) only at the
\* end of the stream, and otherwise between 1 and buffer.len() of the bytes
\* that are there.
ReadChunk ==
    /\ UNCHANGED <<poolVars, clientVars, bridgeVars, gwVars, runnerVars, kx>>
    /\ rd.pc = "loop"
    /\ rd.remaining > 0
    /\ LET buffer == BufferLen(rd.remaining)
           there == rd.sent - rd.consumed
           most == Min(buffer, there)
       IN \/ /\ there = 0
             /\ rd' = [rd EXCEPT !.pc = "done", !.buffer = buffer, !.bytes_read = 0,
                                  !.ret = "ConnectionClosed"]
          \/ rd' = [rd EXCEPT !.pc = "done", !.buffer = buffer, !.bytes_read = 0,
                               !.ret = "Io"]
          \/ /\ there > 0
             /\ \E n \in {most} \cup (IF rd.short < MaxShortReads
                                       THEN ShortReads(most) ELSE {}) :
                  rd' = [rd EXCEPT !.buffer = buffer, !.bytes_read = n,
                                   !.consumed = @ + n,
                                   !.received = @ + n,
                                   !.remaining = @ - n,
                                   !.short = IF n < most THEN @ + 1 ELSE @]

\* remaining is 0: the loop is left and response_data goes to
\* serde_json::from_slice.
ReadParse ==
    /\ UNCHANGED <<poolVars, clientVars, bridgeVars, gwVars, runnerVars, kx>>
    /\ rd.pc = "loop"
    /\ rd.remaining <= 0
    /\ rd' = [rd EXCEPT !.pc = "done", !.ret = "parse", !.parsed = rd.received]

\* get_key returned and the stream is dropped.
ReadReturned ==
    /\ UNCHANGED <<poolVars, clientVars, bridgeVars, gwVars, runnerVars, kx>>
    /\ rd.pc = "done"
    /\ rd' = NotReading

NextRead ==
    \/ ReadLength
    \/ ReadChunk
    \/ ReadParse
    \/ ReadReturned

SpecRead == Init /\ [][NextRead]_vars

\* ------------------------------------------- start_server_in_thread, Notify
\* Faulty variant: the address asked for (port 0) is returned, not the bound one.
local_addr_requested(listener) == 0

\* listener.local_addr(): the address the listener is bound to.
local_addr(listener) == listener

\* start_server_in_thread returns an error; what it built is dropped.
StartFails(at) ==
    srv' = [srv EXCEPT !.pc = "returned", !.rt = FALSE, !.listener = 0,
                       !.bind = IF at = "bind" THEN "err" ELSE @,
                       !.ret = [state |-> "err", addr |-> 0]]

\* tokio::runtime::Runtime::new().
StartRuntime ==
    /\ UNCHANGED <<poolVars, clientVars, keyVars, gwVars, runnerVars, file, nreq, received, sch>>
    /\ srv.pc = "start"
    /\ \E ok \in BOOLEAN :
         IF ok THEN srv' = [srv EXCEPT !.pc = "bind", !.rt = TRUE]
         ELSE StartFails("runtime")

\* rt.block_on(TcpListener::bind(127.0.0.1:0)).
StartBind ==
    /\ UNCHANGED <<poolVars, clientVars, keyVars, gwVars, runnerVars, file, nreq, received, sch>>
    /\ srv.pc = "bind"
    /\ \E a \in ListenPorts \cup {0} :
         IF a # 0
         THEN srv' = [srv EXCEPT !.pc = "local_addr", !.listener = a, !.bind = "ok"]
         ELSE StartFails("bind")

\* let server_addr = listener.local_addr()?.
StartLocalAddr ==
    /\ UNCHANGED <<poolVars, clientVars, keyVars, gwVars, runnerVars, file, nreq, received, sch>>
    /\ srv.pc = "local_addr"
    /\ \E ok \in BOOLEAN :
         IF ok
         THEN srv' = [srv EXCEPT !.pc = "spawn", !.server_addr = local_addr(srv.listener)]
         ELSE StartFails("local_addr")

\* thread::spawn: the runtime and the listener move into the thread.
StartSpawn ==
    /\ UNCHANGED <<poolVars, clientVars, keyVars, gwVars, runnerVars, file, nreq, received, sch>>
    /\ srv.pc = "spawn"
    /\ srv' = [srv EXCEPT !.pc = "return", !.thread = TRUE]

\* Ok((server_addr, handle)).
StartReturn ==
    /\ UNCHANGED <<poolVars, clientVars, keyVars, gwVars, runnerVars, file, nreq, received, sch>>
    /\ srv.pc = "return"
    /\ srv' = [srv EXCEPT !.pc = "returned",
                          !.ret = [state |-> "ok", addr |-> srv.server_addr]]

\* The spawned thread reaches axum::serve(listener, app).
ThreadServe ==
    /\ UNCHANGED <<poolVars, clientVars, keyVars, gwVars, runnerVars, file, nreq, received, sch>>
    /\ srv.thread
    /\ srv.serving = 0
    /\ srv' = [srv EXCEPT !.serving = srv.listener]

Events == {"instance.info", "other"}

\* The payloads a guest can post.
Payloads == {<<"a", "a">>, <<"b">>}

\* The file after `bytes` were written at the start of it.
Overlay(data, bytes) == bytes \o SubSeq(data, Len(bytes) + 1, Len(data))

\* Faulty variant: a worker inside get_key still polls other tasks.
CanPollAlways(w) == TRUE

\* Worker thread w can poll a task of the runtime: it is not inside a handler
\* that blocks the thread. get_sealing_key calls get_key directly, and get_key
\* connects, writes and reads on a std::net::TcpStream without a timeout.
CanPoll(w) == w \notin sch.blocked

\* axum::serve accepts the connection of a Notify request and spawns its task
\* on the runtime; the task waits for a worker thread.
NotifyArrive ==
    /\ UNCHANGED <<poolVars, clientVars, keyVars, gwVars, runnerVars, srv, file, nreq, received>>
    /\ srv.serving # 0
    /\ sch.pending = 0
    /\ sch' = [sch EXCEPT !.pending = 1]

\* Worker w polls the task of a GetSealingKey request: get_sealing_key runs up
\* to get_key, whose connect or read_exact blocks the thread while the key
\* provider does not answer.
KeyBlock(w) ==
    /\ UNCHANGED <<poolVars, clientVars, keyVars, gwVars, runnerVars, srv, file, nreq, received>>
    /\ srv.serving # 0
    /\ nreq[w].pc = "idle"
    /\ CanPoll(w)
    /\ sch' = [sch EXCEPT !.blocked = @ \cup {w}]

\* The key provider answers, closes or refuses: get_key returns, the handler
\* answers and the worker goes back to the scheduler.
KeyUnblock(w) ==
    /\ UNCHANGED <<poolVars, clientVars, keyVars, gwVars, runnerVars, srv, file, nreq, received>>
    /\ w \in sch.blocked
    /\ sch' = [sch EXCEPT !.blocked = @ \ {w}]

\* notify up to the comparison of the event: the body is parsed (json: whether
\* it parses as a NotifyRequest); any event but "instance.info" is answered 200.
NotifyParse(w) ==
    /\ UNCHANGED <<poolVars, clientVars, keyVars, gwVars, runnerVars, srv, file>>
    /\ srv.serving # 0
    /\ nreq[w].pc = "idle"
    /\ CanPoll(w)
    /\ sch.pending > 0
    /\ sch' = [sch EXCEPT !.pending = @ - 1]
    /\ \E json \in BOOLEAN, event \in Events, payload \in Payloads :
         IF ~json
         THEN /\ nreq' = [nreq EXCEPT ![w] =
                            [NoNotify EXCEPT !.status = into_response("Json").status]]
              /\ UNCHANGED received
         ELSE IF event = "instance.info"
         THEN /\ nreq' = [nreq EXCEPT ![w] =
                            [pc |-> "create", event |-> event,
                             payload |-> payload, status |-> 0]]
              /\ received' = received \cup {payload}
         ELSE /\ nreq' = [nreq EXCEPT ![w] =
                            [pc |-> "idle", event |-> event,
                             payload |-> payload, status |-> 200]]
              /\ UNCHANGED received

\* File::create(&info_path): the file is created or truncated.
NotifyCreate(w) ==
    /\ UNCHANGED <<poolVars, clientVars, keyVars, gwVars, runnerVars, srv, received, sch>>
    /\ nreq[w].pc = "create"
    /\ \E ok \in BOOLEAN :
         IF ok
         THEN /\ file' = [exists |-> TRUE, data |-> <<>>]
              /\ nreq' = [nreq EXCEPT ![w].pc = "write"]
         ELSE /\ nreq' = [nreq EXCEPT ![w].pc = "idle",
                                      ![w].status = into_response("Io").status]
              /\ UNCHANGED file

\* file.write_all(payload): all of it, or an error after the first k bytes.
NotifyWrite(w) ==
    /\ UNCHANGED <<poolVars, clientVars, keyVars, gwVars, runnerVars, srv, received, sch>>
    /\ nreq[w].pc = "write"
    /\ \E k \in 0..Len(nreq[w].payload) :
         /\ file' = [file EXCEPT !.data = Overlay(@, SubSeq(nreq[w].payload, 1, k))]
         /\ nreq' = [nreq EXCEPT ![w].pc = "idle",
                                 ![w].status = IF k = Len(nreq[w].payload) THEN 200
                                               ELSE into_response("Io").status]

NextBridge ==
    \/ StartRuntime
    \/ StartBind
    \/ StartLocalAddr
    \/ StartSpawn
    \/ StartReturn
    \/ ThreadServe
    \/ \E w \in Workers : NotifyParse(w)
    \/ \E w \in Workers : NotifyCreate(w)
    \/ \E w \in Workers : NotifyWrite(w)
    \/ NotifyArrive

SpecBridge == Init /\ [][NextBridge]_vars

\* The bridge serving both of its routes: Notify requests, and GetSealingKey
\* requests whose handler waits for the key provider.
NextSched ==
    \/ NextBridge
    \/ \E w \in Workers : KeyBlock(w)
    \/ \E w \in Workers : KeyUnblock(w)

\* What the runtime and the file system guarantee: a task that some worker can
\* poll again and again is polled, and the file operations of a handler that
\* runs return.  Nothing is asked of the key provider: it may stay silent for
\* ever.
BridgeFairness ==
    /\ SF_vars(\E w \in Workers : NotifyParse(w))
    /\ \A w \in Workers : WF_vars(NotifyCreate(w)) /\ WF_vars(NotifyWrite(w))

SpecBridgeFair == Init /\ [][NextSched]_vars /\ BridgeFairness

\* ============================================================ Tenant Gateway
\* The await points of Manager::assign_cvm, in order.
GwAssignSteps == <<"get_cvm", "fill", "new_client", "attest", "assign", "run">>

\* Faulty variant: the lock is granted whether or not it is held.
MutexAlwaysFree(h) == TRUE

\* tokio::sync::Mutex::lock: granted when no guard is alive.
MutexFree(h) == h = NoTask

\* Faulty variant: the signal task sends the stop signal right after locking.
AfterLockSend(t) == IF t = SigTask THEN "send" ELSE GwAssignSteps[1]

\* What a task does once it holds the guard.
AfterLock(t) == IF t = SigTask THEN "shutdown" ELSE GwAssignSteps[1]

\* Faulty variant: the guard of a task outlives it.
ReleaseNever(t) == holder

\* The guard of a task is dropped.
Release(t) == IF holder = t THEN NoTask ELSE holder

\* main: Manager::new, the listener, the signal task, axum::serve.
GwMain ==
    /\ UNCHANGED <<poolVars, clientVars, keyVars, bridgeVars, runnerVars>>
    /\ server = "init"
    /\ \E ok \in BOOLEAN : server' = IF ok THEN "serving" ELSE "exited"
    /\ UNCHANGED <<holder, gpc, gresp, shutdown_tx, stops, mgr_shutdown, sweep_left>>

\* POST /assign_cvm reaches its handler: the Json extractor, RunConfig::new,
\* then state.manager.lock().await.
GwRequest(h) ==
    /\ UNCHANGED <<poolVars, clientVars, keyVars, bridgeVars, runnerVars>>
    /\ server = "serving"
    /\ gpc[h] = "idle"
    /\ \E json \in BOOLEAN :
         IF json
         THEN /\ gpc' = [gpc EXCEPT ![h] = "lock"]
              /\ gresp' = [gresp EXCEPT ![h] = 0]
         ELSE /\ gresp' = [gresp EXCEPT ![h] = 422]
              /\ UNCHANGED gpc
    /\ UNCHANGED <<server, holder, shutdown_tx, stops, mgr_shutdown, sweep_left>>

\* SIGINT or SIGTERM ends the select! of handle_shutdown_signals.
GwSignal ==
    /\ UNCHANGED <<poolVars, clientVars, keyVars, bridgeVars, runnerVars>>
    /\ server = "serving"
    /\ gpc[SigTask] = "wait"
    /\ gpc' = [gpc EXCEPT ![SigTask] = "lock"]
    /\ UNCHANGED <<server, holder, gresp, shutdown_tx, stops, mgr_shutdown, sweep_left>>

\* state.manager.lock().await returns the guard.
GwLock(t) ==
    /\ UNCHANGED <<poolVars, clientVars, keyVars, bridgeVars, runnerVars>>
    /\ gpc[t] = "lock"
    /\ MutexFree(holder)
    /\ holder' = t
    /\ gpc' = [gpc EXCEPT ![t] = AfterLock(t)]
    /\ UNCHANGED <<server, gresp, shutdown_tx, stops, mgr_shutdown, sweep_left>>

\* How step i of assign_cvm can end: get_cvm on a Manager whose shutdown has
\* returned finds free empty and returns its error.
GwOutcomes(i) ==
    IF GwAssignSteps[i] = "get_cvm" /\ mgr_shutdown = "done" THEN {FALSE} ELSE BOOLEAN

\* One step of manager.assign_cvm under the guard; an Err, or the Ok of the
\* last step, ends the handler, which answers and drops the guard.
GwAssignStep(h) ==
    /\ UNCHANGED <<poolVars, clientVars, keyVars, bridgeVars, runnerVars>>
    /\ \E i \in 1..Len(GwAssignSteps) : \E ok \in GwOutcomes(i) :
         /\ gpc[h] = GwAssignSteps[i]
         /\ LET next == Propagate(ok, IF i = Len(GwAssignSteps) THEN "idle"
                                      ELSE GwAssignSteps[i + 1])
            IN /\ gpc' = [gpc EXCEPT ![h] = next]
               /\ holder' = IF next = "idle" THEN Release(h) ELSE holder
               /\ gresp' = IF next = "idle"
                           THEN [gresp EXCEPT ![h] = IF ok THEN 200 ELSE 500]
                           ELSE gresp
    /\ UNCHANGED <<server, shutdown_tx, stops, mgr_shutdown, sweep_left>>

\* The connection of a request goes away: its handler future is dropped where
\* it waits, and with it the guard it may hold.
GwCancel(h) ==
    /\ UNCHANGED <<poolVars, clientVars, keyVars, bridgeVars, runnerVars>>
    /\ gpc[h] # "idle"
    /\ gpc' = [gpc EXCEPT ![h] = "idle"]
    /\ holder' = Release(h)
    /\ UNCHANGED <<server, gresp, shutdown_tx, stops, mgr_shutdown, sweep_left>>

\* manager.shutdown(): the drain of both collections.
GwShutdownStart ==
    /\ UNCHANGED <<poolVars, clientVars, keyVars, bridgeVars, runnerVars>>
    /\ gpc[SigTask] = "shutdown"
    /\ mgr_shutdown = "none"
    /\ mgr_shutdown' = "running"
    /\ \E n \in 0..MaxContainers : sweep_left' = n
    /\ UNCHANGED <<server, holder, gpc, gresp, shutdown_tx, stops>>

\* manager.shutdown(): one container of the sweep.
GwShutdownSweep ==
    /\ UNCHANGED <<poolVars, clientVars, keyVars, bridgeVars, runnerVars>>
    /\ mgr_shutdown = "running"
    /\ sweep_left > 0
    /\ sweep_left' = sweep_left - 1
    /\ UNCHANGED <<server, holder, gpc, gresp, shutdown_tx, stops, mgr_shutdown>>

\* manager.shutdown() returns.
GwShutdownDone ==
    /\ UNCHANGED <<poolVars, clientVars, keyVars, bridgeVars, runnerVars>>
    /\ mgr_shutdown = "running"
    /\ sweep_left = 0
    /\ mgr_shutdown' = "done"
    /\ gpc' = [gpc EXCEPT ![SigTask] = "send"]
    /\ UNCHANGED <<server, holder, gresp, shutdown_tx, stops, sweep_left>>

\* shutdown_tx.take() and tx.send(()); the task ends and drops its guards.
GwSendStop ==
    /\ UNCHANGED <<poolVars, clientVars, keyVars, bridgeVars, runnerVars>>
    /\ gpc[SigTask] = "send"
    /\ IF shutdown_tx
       THEN /\ stops' = stops + 1
            /\ server' = "stopping"
       ELSE UNCHANGED <<stops, server>>
    /\ shutdown_tx' = FALSE
    /\ gpc' = [gpc EXCEPT ![SigTask] = "done"]
    /\ holder' = Release(SigTask)
    /\ UNCHANGED <<gresp, mgr_shutdown, sweep_left>>

NextGateway ==
    \/ GwMain
    \/ \E h \in Handlers : GwRequest(h)
    \/ GwSignal
    \/ \E t \in Tasks : GwLock(t)
    \/ \E h \in Handlers : GwAssignStep(h)
    \/ \E h \in Handlers : GwCancel(h)
    \/ GwShutdownStart
    \/ GwShutdownSweep
    \/ GwShutdownDone
    \/ GwSendStop

SpecGateway == Init /\ [][NextGateway]_vars

\* The gateway under the scheduling the runtime gives: a handler that holds
\* the guard goes on with assign_cvm (every request in flight terminates),
\* the signal task goes on with shutdown, whose calls to the daemon return,
\* and tokio's Mutex queues its waiters, so that the signal task, which can
\* take the lock again and again as guards are dropped, does take it.
GatewayFairness ==
    /\ \A h \in Handlers : WF_vars(GwAssignStep(h))
    /\ SF_vars(GwLock(SigTask))
    /\ WF_vars(GwShutdownStart)
    /\ WF_vars(GwShutdownSweep)
    /\ WF_vars(GwShutdownDone)
    /\ WF_vars(GwSendStop)

SpecGatewayFair == Init /\ [][NextGateway]_vars /\ GatewayFairness

\* =============================================================== Host Runner
\* ------------------------------------------------------------ u64 arithmetic
\* A u64 is kept as four 16-bit limbs, least significant first, so that its
\* width is the width of the code's integers.
LimbBase == 65536
U64Limbs == 4

Zero(n) == [i \in 1..n |-> 0]

\* x * m + c from limb i on: the limbs of the result and the carry out of the top.
RECURSIVE MulAddAt(_, _, _, _)
MulAddAt(x, m, c, i) ==
    IF i > Len(x) THEN [val |-> <<>>, carry |-> c]
    ELSE LET t == x[i] * m + c
             r == MulAddAt(x, m, t \div LimbBase, i + 1)
         IN [val |-> <<t % LimbBase>> \o r.val, carry |-> r.carry]

MulAdd(x, m, a) == MulAddAt(x, m, a, 1)

\* x / 1024 on limbs, from the top limb down with remainder rem.
RECURSIVE DivAt(_, _, _, _)
DivAt(x, d, rem, i) ==
    IF i = 0 THEN <<>>
    ELSE LET t == rem * LimbBase + x[i] IN
           DivAt(x, d, t % d, i - 1) \o <<t \div d>>

Div(x, d) == DivAt(x, d, 0, Len(x))

\* x < y on numbers of the same number of limbs.
RECURSIVE LessAt(_, _, _)
LessAt(x, y, i) ==
    IF i = 0 THEN FALSE
    ELSE IF x[i] # y[i] THEN x[i] < y[i]
    ELSE LessAt(x, y, i - 1)

Less(x, y) == LessAt(x, y, Len(x))

\* str::parse for an unsigned integer of n limbs: an optional "+", then at
\* least one digit, and an error when the value does not fit.
RECURSIVE ParseInto(_, _)
ParseInto(cs, acc) ==
    IF cs = <<>> THEN [ok |-> TRUE, val |-> acc]
    ELSE IF Head(cs) \notin DigitSet THEN [ok |-> FALSE, val |-> acc]
    ELSE LET r == MulAdd(acc, 10, DigitVal(Head(cs))) IN
           IF r.carry # 0 THEN [ok |-> FALSE, val |-> acc]
           ELSE ParseInto(Tail(cs), r.val)

ParseUnsigned(cs, n) ==
    LET body == IF cs # <<>> /\ Head(cs) = "+" THEN Tail(cs) ELSE cs IN
      IF body = <<>> THEN [ok |-> FALSE, val |-> Zero(n)]
      ELSE ParseInto(body, Zero(n))

\* ------------------------------------------------------------------ strings
Lower == <<"m", "g", "t", "k", "c", "p", "u", "d", "i">>
Upper == <<"M", "G", "T", "K", "C", "P", "U", "D", "I">>

\* char::to_uppercase / to_lowercase on the letters in use.
UpperChar(c) ==
    IF \E i \in 1..Len(Lower) : Lower[i] = c
    THEN Upper[CHOOSE i \in 1..Len(Lower) : Lower[i] = c] ELSE c
LowerChar(c) ==
    IF \E i \in 1..Len(Upper) : Upper[i] = c
    THEN Lower[CHOOSE i \in 1..Len(Upper) : Upper[i] = c] ELSE c

to_uppercase(cs) == [i \in 1..Len(cs) |-> UpperChar(cs[i])]
to_lowercase(cs) == [i \in 1..Len(cs) |-> LowerChar(cs[i])]

\* str::trim_end_matches(c): every trailing c is removed.
RECURSIVE trim_end_matches(_, _)
trim_end_matches(cs, c) ==
    IF cs # <<>> /\ cs[Len(cs)] = c
    THEN trim_end_matches(SubSeq(cs, 1, Len(cs) - 1), c)
    ELSE cs

\* str::trim_start_matches(c).
RECURSIVE trim_start_matches(_, _)
trim_start_matches(cs, c) ==
    IF cs # <<>> /\ Head(cs) = c THEN trim_start_matches(Tail(cs), c) ELSE cs

\* str::trim, for strings whose only white space is the blank.
trim(cs) == trim_end_matches(trim_start_matches(cs, " "), " ")

ends_with(cs, c) == cs # <<>> /\ cs[Len(cs)] = c

\* ------------------------------------------------------------ memory_to_mb
\* The two ways the crate is built: with overflow checks (dev) or without.
Builds == {"debug", "release"}

MbErr == [ok |-> FALSE, panic |-> FALSE, val |-> Zero(U64Limbs)]

\* val * m on u64: an overflow panics in a build with overflow checks and
\* wraps in one without.
Times(r, m, build) ==
    IF ~r.ok THEN r
    ELSE LET p == MulAdd(r.val, m, 0) IN
           IF p.carry = 0 THEN [r EXCEPT !.val = p.val]
           ELSE IF build = "debug" THEN [ok |-> FALSE, panic |-> TRUE, val |-> r.val]
           ELSE [r EXCEPT !.val = p.val]

\* upper.trim_end_matches(suffix).parse::<u64>()?.
ParseMb(cs) ==
    LET v == ParseUnsigned(cs, U64Limbs) IN
      IF v.ok THEN [ok |-> TRUE, panic |-> FALSE, val |-> v.val] ELSE MbErr

memory_to_mb(mem, build) ==
    LET upper == to_uppercase(trim(mem)) IN
      IF ends_with(upper, "T")
      THEN Times(Times(ParseMb(trim_end_matches(upper, "T")), 1024, build), 1024, build)
      ELSE IF ends_with(upper, "G")
      THEN Times(ParseMb(trim_end_matches(upper, "G")), 1024, build)
      ELSE IF ends_with(upper, "M")
      THEN ParseMb(trim_end_matches(upper, "M"))
      ELSE ParseMb(upper)

\* The digit strings and suffixes the memory and disk arguments are drawn from.
MemDigits ==
    {<<"0">>,
     <<"1">>,
     <<"2">>,
     <<"5", "1", "2">>,
     <<"1", "0", "2", "4">>,
     <<"1", "7", "5", "9", "2", "1", "8", "6", "0", "4", "4", "4", "1", "5">>,
     <<"1", "7", "5", "9", "2", "1", "8", "6", "0", "4", "4", "4", "1", "6">>,
     <<"1", "8", "0", "1", "4", "3", "9", "8", "5", "0", "9", "4", "8", "1", "9", "8", "4">>,
     <<"1", "8", "4", "4", "6", "7", "4", "4", "0", "7", "3", "7", "0", "9", "5", "5", "1", "6", "1", "5">>,
     <<"1", "8", "4", "4", "6", "7", "4", "4", "0", "7", "3", "7", "0", "9", "5", "5", "1", "6", "1", "6">>}

MemSuffixes == {<<>>, <<"M">>, <<"G">>, <<"T">>, <<"g">>, <<"K">>, <<"G", "G">>, <<"M", " ">>}

MemStrings == {d \o x : d \in MemDigits \cup {<<>>}, x \in MemSuffixes}

\* memory_to_mb on two strings, in one build.
MemoryToMb ==
    /\ UNCHANGED <<poolVars, clientVars, keyVars, bridgeVars, gwVars, vm>>
    /\ rn.fn = "none"
    /\ \E mem \in MemStrings, mem2 \in MemStrings, build \in Builds :
         rn' = [fn |-> "memory_to_mb", build |-> build, mem |-> mem, mem2 |-> mem2,
                res |-> memory_to_mb(mem, build), res2 |-> memory_to_mb(mem2, build)]

\* ------------------------------------------------------ parse_port_mapping
\* str::split(sep): the fields between the separators (at least one field).
RECURSIVE split(_, _)
split(cs, sep) ==
    IF \A i \in 1..Len(cs) : cs[i] # sep THEN <<cs>>
    ELSE LET k == CHOOSE i \in 1..Len(cs) :
                    cs[i] = sep /\ \A j \in 1..(i - 1) : cs[j] # sep
         IN <<SubSeq(cs, 1, k - 1)>> \o split(SubSeq(cs, k + 1, Len(cs)), sep)

\* The digits at the head of cs read as a u16: an error past 65535.
RECURSIVE ParseU16Into(_, _)
ParseU16Into(cs, acc) ==
    IF cs = <<>> THEN [ok |-> TRUE, val |-> acc]
    ELSE IF Head(cs) \notin DigitSet THEN [ok |-> FALSE, val |-> 0]
    ELSE IF acc * 10 + DigitVal(Head(cs)) > 65535 THEN [ok |-> FALSE, val |-> 0]
    ELSE ParseU16Into(Tail(cs), acc * 10 + DigitVal(Head(cs)))

\* str::parse::<u16>().
parse_u16(cs) ==
    LET body == IF cs # <<>> /\ Head(cs) = "+" THEN Tail(cs) ELSE cs IN
      IF body = <<>> THEN [ok |-> FALSE, val |-> 0] ELSE ParseU16Into(body, 0)

Loopback == <<"1", "2", "7", ".", "0", ".", "0", ".", "1">>

PortErr == [ok |-> FALSE, address |-> <<>>, protocol |-> <<>>, from_port |-> 0, to_port |-> 0]

\* The PortMap built from the fields, once both ports have parsed.
PortMap(proto, address, from, to) ==
    IF ~from.ok \/ ~to.ok THEN PortErr
    ELSE [ok |-> TRUE, address |-> address, protocol |-> to_lowercase(proto),
          from_port |-> from.val, to_port |-> to.val]

parse_port_mapping(port_str) ==
    LET parts == split(port_str, ":") IN
      CASE Len(parts) = 3 ->
             PortMap(parts[1], Loopback, parse_u16(parts[2]), parse_u16(parts[3]))
        [] Len(parts) = 4 ->
             PortMap(parts[1], parts[2], parse_u16(parts[3]), parse_u16(parts[4]))
        [] OTHER -> PortErr

NoManifest == [vcpu |-> 0, memory |-> Zero(U64Limbs), disk_size |-> Zero(U64Limbs),
               port_map |-> <<>>]

\* ------------------------------------------------- serde_json, pretty form
\* x % d on limbs, from the top limb down.
RECURSIVE RemAt(_, _, _, _)
RemAt(x, d, rem, i) ==
    IF i = 0 THEN rem ELSE RemAt(x, d, (rem * LimbBase + x[i]) % d, i - 1)

\* The decimal text serde_json writes for a u64.
RECURSIVE DecimalU64(_)
DecimalU64(x) ==
    LET digit == <<DigitChar[RemAt(x, 10, 0, Len(x)) + 1]>> IN
      IF Div(x, 10) = Zero(Len(x)) THEN digit ELSE DecimalU64(Div(x, 10)) \o digit

\* A string as serde_json writes it: quoted, with the characters that need
\* it escaped.
RECURSIVE EscapeChars(_)
EscapeChars(cs) ==
    IF cs = <<>> THEN <<>>
    ELSE (IF \E e \in Escapes : e[2] = Head(cs) /\ e[1] # "/"
          THEN <<"\\", (CHOOSE e \in Escapes : e[2] = Head(cs) /\ e[1] # "/")[1]>>
          ELSE <<Head(cs)>>) \o EscapeChars(Tail(cs))

JsonEscaped(cs) == <<"\"">> \o EscapeChars(cs) \o <<"\"">>

\* PrettyFormatter: a new line and two spaces per level before every element.
Indent(k) == <<"\n">> \o [i \in 1..(2 * k) |-> " "]

RECURSIVE PrettyItems(_, _)
PrettyItems(texts, k) ==
    IF Len(texts) = 1 THEN Indent(k) \o texts[1]
    ELSE Indent(k) \o texts[1] \o <<",">> \o PrettyItems(Tail(texts), k)

\* An array whose elements, already written for level k + 1, are texts.
PrettyArray(texts, k) ==
    IF texts = <<>> THEN <<"[", "]">>
    ELSE <<"[">> \o PrettyItems(texts, k + 1) \o Indent(k) \o <<"]">>

\* An object whose members <<key, text>> are written at level k + 1.
PrettyObject(members, k) ==
    IF members = <<>> THEN <<"{", "}">>
    ELSE <<"{">>
         \o PrettyItems([i \in 1..Len(members) |->
                           JsonEscaped(members[i][1]) \o <<":", " ">> \o members[i][2]],
                        k + 1)
         \o Indent(k) \o <<"}">>

VcpuKey == <<"v", "c", "p", "u">>
MemoryKey == <<"m", "e", "m", "o", "r", "y">>
DiskSizeKey == <<"d", "i", "s", "k", "_", "s", "i", "z", "e">>
PortMapKey == <<"p", "o", "r", "t", "_", "m", "a", "p">>
AddressKey == <<"a", "d", "d", "r", "e", "s", "s">>
ProtocolKey == <<"p", "r", "o", "t", "o", "c", "o", "l">>
FromKey == <<"f", "r", "o", "m">>
ToKey == <<"t", "o">>
ManifestVersionKey == <<"m", "a", "n", "i", "f", "e", "s", "t", "_", "v", "e", "r", "s", "i", "o", "n">>
ComposeFileKey == <<"d", "o", "c", "k", "e", "r", "_", "c", "o", "m", "p", "o", "s", "e", "_", "f", "i", "l", "e">>

\* Serialize for PortMap at level k (from_port and to_port are renamed).
PortMapJson(pm, k) ==
    PrettyObject(<< <<AddressKey, JsonEscaped(pm.address)>>,
                    <<ProtocolKey, JsonEscaped(pm.protocol)>>,
                    <<FromKey, Decimal(pm.from_port)>>,
                    <<ToKey, Decimal(pm.to_port)>> >>, k)

\* Faulty variant: the port mappings are written last one first.
PortMapMembersReversed(port_map) ==
    [i \in 1..Len(port_map) |-> PortMapJson(port_map[Len(port_map) + 1 - i], 2)]

\* The elements of port_map, in the order of the vector.
PortMapMembers(port_map) ==
    [i \in 1..Len(port_map) |-> PortMapJson(port_map[i], 2)]

\* serde_json::to_writer_pretty(&vm_config), in the order of the struct's
\* fields; id, name, gpu, image, image_path and created_at_ms are left out.
ManifestJson(vm_config) ==
    PrettyObject(<< <<VcpuKey, Decimal(vm_config.vcpu)>>,
                    <<MemoryKey, DecimalU64(vm_config.memory)>>,
                    <<DiskSizeKey, DecimalU64(vm_config.disk_size)>>,
                    <<PortMapKey, PrettyArray(PortMapMembers(vm_config.port_map), 1)>> >>, 0)

\* serde_json::to_writer_pretty(&app_compose): the members of a json! object
\* come out in key order; name, version, features, runner and
\* local_key_provider_enabled are left out.
AppComposeJson(compose_content) ==
    PrettyObject(<< <<ComposeFileKey, JsonEscaped(compose_content)>>,
                    <<ManifestVersionKey, Decimal(1)>> >>, 0)

\* A number member read as a u64.
AsU64(v) ==
    IF v.t = "num" /\ v.u64 THEN ParseUnsigned(v.items, U64Limbs)
    ELSE [ok |-> FALSE, val |-> Zero(U64Limbs)]

\* A number member read as a u16.
AsU16(v) ==
    IF v.t = "num" /\ v.u64 THEN ParseU16Into(v.items, 0)
    ELSE [ok |-> FALSE, val |-> 0]

\* A number member read as a u32: a u64 whose upper half is zero.
AsU32(v) ==
    LET r == AsU64(v) IN
      IF r.ok /\ r.val[3] = 0 /\ r.val[4] = 0
      THEN [ok |-> TRUE, val |-> r.val[1] + LimbBase * r.val[2]]
      ELSE [ok |-> FALSE, val |-> 0]

\* Deserialize for PortMap.
PortMapFromJson(v) ==
    LET from == AsU16(Index(v, FromKey))
        to == AsU16(Index(v, ToKey))
    IN IF v.t # "obj" \/ Index(v, AddressKey).t # "str"
          \/ Index(v, ProtocolKey).t # "str" THEN PortErr
       ELSE PortMap(Index(v, ProtocolKey).items, Index(v, AddressKey).items, from, to)

\* serde_json::from_str::<VMConfig>, for the fields that are written.
VMConfigFromJson(text) ==
    LET r == from_slice(text)
        vcpu == AsU32(Index(r.val, VcpuKey))
        memory == AsU64(Index(r.val, MemoryKey))
        disk_size == AsU64(Index(r.val, DiskSizeKey))
        pms == Index(r.val, PortMapKey)
        port_map == [i \in 1..Len(pms.items) |-> PortMapFromJson(pms.items[i])]
    IN IF ~r.ok \/ r.val.t # "obj" \/ ~vcpu.ok \/ ~memory.ok \/ ~disk_size.ok
          \/ pms.t # "arr" \/ \E i \in 1..Len(port_map) : ~port_map[i].ok
       THEN [ok |-> FALSE, config |-> NoManifest]
       ELSE [ok |-> TRUE,
             config |-> [vcpu |-> vcpu.val, memory |-> memory.val,
                         disk_size |-> disk_size.val, port_map |-> port_map]]

\* The fields the port strings are put together from.
ProtoTexts == {<<"t", "c", "p">>, <<"T", "C", "P">>, <<"u", "d", "p">>, <<"U", "d", "p">>,
               <<"i", "c", "m", "p">>, <<>>}
AddressTexts == {Loopback, <<"0", ".", "0", ".", "0", ".", "0">>}
PortTexts == {<<"0">>, <<"1">>, <<"8", "0">>, <<"6", "5", "5", "3", "5">>,
              <<"6", "5", "5", "3", "6">>, <<"+", "8", "0">>, <<"8", "x">>, <<>>}

Colon(fields) ==
    IF Len(fields) = 3 THEN fields[1] \o <<":">> \o fields[2] \o <<":">> \o fields[3]
    ELSE fields[1] \o <<":">> \o fields[2] \o <<":">> \o fields[3] \o <<":">> \o fields[4]

PortStrings ==
    {Colon(<<pr, a, b>>) : pr \in ProtoTexts, a \in PortTexts, b \in PortTexts}
    \cup {Colon(<<pr, ad, a, b>>) :
            pr \in ProtoTexts, ad \in AddressTexts, a \in PortTexts, b \in PortTexts}
    \cup {<<"t", "c", "p", ":", "8", "0", "8", "0">>, <<"t", "c", "p">>,
          <<"t", "c", "p", ":", ":", ":", "1", ":", "8", "0", ":", "8", "0">>}

\* parse_port_mapping on one string.
ParsePortMapping ==
    /\ UNCHANGED <<poolVars, clientVars, keyVars, bridgeVars, gwVars, vm>>
    /\ rn.fn = "none"
    /\ \E port_str \in PortStrings :
         rn' = [fn |-> "parse_port_mapping", port_str |-> port_str,
                fields |-> Len(split(port_str, ":")),
                res |-> parse_port_mapping(port_str)]

\* ---------------------------------------------------------- setup_instance
\* Where the file system can make setup_instance fail.
SetupFailures == {"none", "dirs", "compose", "app_compose", "metadata", "config", "manifest"}

SetupSteps == <<"dirs", "compose", "app_compose", "metadata", "config">>

\* A failed call: app_compose is the text of shared/app-compose.json if it
\* was written.
SetupErr(written, app_compose) ==
    [ok |-> FALSE, panic |-> FALSE, written |-> written, manifest |-> NoManifest,
     app_compose |-> IF written = <<>> THEN <<>> ELSE app_compose,
     manifest_json |-> <<>>]

\* Faulty variant: the manifest is written first, before the other steps.
WrittenManifestFirst(fail_at) ==
    CASE fail_at \in {"dirs"} -> <<>>
      [] fail_at \in {"compose", "app_compose"} -> <<"vm-manifest.json">>
      [] fail_at \in {"metadata", "config"} -> <<"vm-manifest.json", "app-compose.json">>
      [] OTHER -> <<"vm-manifest.json", "app-compose.json", "config.json">>

\* The files written before the step that fails (all of them when none does).
WrittenBefore(fail_at) ==
    CASE fail_at \in {"dirs", "compose", "app_compose"} -> <<>>
      [] fail_at \in {"metadata", "config"} -> <<"app-compose.json">>
      [] OTHER -> <<"app-compose.json", "config.json">>

\* setup_instance: steps 1 to 5 against the file system, then the manifest.
setup_instance(compose_content, vcpus, memory_str, disk_str, ports, fail_at, build) ==
    LET written == WrittenBefore(fail_at)
        app_compose == AppComposeJson(compose_content)
        memory_mb == memory_to_mb(memory_str, build)
        disk == memory_to_mb(disk_str, build)
        port_map_vec == [i \in 1..Len(ports) |-> parse_port_mapping(ports[i])]
        vm_config == [vcpu |-> vcpus, memory |-> memory_mb.val,
                      disk_size |-> Div(disk.val, 1024), port_map |-> port_map_vec]
        err == SetupErr(written, app_compose)
    IN IF \E i \in 1..Len(SetupSteps) : SetupSteps[i] = fail_at THEN err
       ELSE IF ~memory_mb.ok THEN [err EXCEPT !.panic = memory_mb.panic]
       ELSE IF ~disk.ok THEN [err EXCEPT !.panic = disk.panic]
       ELSE IF \E i \in 1..Len(ports) : ~port_map_vec[i].ok THEN err
       ELSE IF fail_at = "manifest" THEN err
       ELSE [ok |-> TRUE, panic |-> FALSE,
             written |-> Append(written, "vm-manifest.json"),
             manifest |-> vm_config,
             app_compose |-> app_compose,
             manifest_json |-> ManifestJson(vm_config)]

\* The arguments setup_instance is tried with.
SetupMem == {<<"0">>,
             <<"1", "G">>,
             <<"2", "T">>,
             <<"1", "K">>,
             <<"1", "7", "5", "9", "2", "1", "8", "6", "0", "4", "4", "4", "1", "6", "T">>}
SetupDisk == {<<"1">>,
              <<"5", "1", "2", "M">>,
              <<"1", "G">>,
              <<"2", "T">>,
              <<"1", "K">>}
SetupPorts == {<<"t", "c", "p", ":", "8", "0", "8", "0", ":", "8", "0">>,
               <<"U", "D", "P", ":", "0", ".", "0", ".", "0", ".", "0", ":", "1", ":", "6", "5", "5", "3", "5">>,
               <<"t", "c", "p", ":", "0", ":", "8", "0">>,
               <<"i", "c", "m", "p", ":", "1", ":", "x">>}
\* The texts read from the compose file.
Composes == {<<"a">>,
             <<"v", ":", " ", "\"", "3", "\"", "\n", "\\">>}
SetupPortLists == UNION {[1..n -> SetupPorts] : n \in 0..MaxPortMaps}

\* DStackManager::setup_instance.
SetupInstance ==
    /\ UNCHANGED <<poolVars, clientVars, keyVars, bridgeVars, gwVars, vm>>
    /\ rn.fn = "none"
    /\ \E compose_content \in Composes, vcpus \in 1..2, memory_str \in SetupMem,
          disk_str \in SetupDisk, ports \in SetupPortLists,
          fail_at \in SetupFailures, build \in Builds :
         rn' = [fn |-> "setup_instance", build |-> build,
                compose_content |-> compose_content, vcpus |-> vcpus,
                memory_str |-> memory_str, disk_str |-> disk_str, ports |-> ports,
                fail_at |-> fail_at,
                res |-> setup_instance(compose_content, vcpus, memory_str, disk_str,
                                       ports, fail_at, build)]

\* --------------------------------------- run_instance: shared/config.json
HostApiUrlKey == <<"h", "o", "s", "t", "_", "a", "p", "i", "_", "u", "r", "l">>
HostVsockPortKey == <<"h", "o", "s", "t", "_", "v", "s", "o", "c", "k", "_", "p", "o", "r", "t">>
RootfsHashKey == <<"r", "o", "o", "t", "f", "s", "_", "h", "a", "s", "h">>
DockerRegistryKey == <<"d", "o", "c", "k", "e", "r", "_", "r", "e", "g", "i", "s", "t", "r", "y">>
PccsUrlKey == <<"p", "c", "c", "s", "_", "u", "r", "l">>

\* The keys the configurations tried use, in the order of their bytes.
SortedKeys == <<DockerRegistryKey, HostApiUrlKey, HostVsockPortKey, PccsUrlKey, RootfsHashKey>>

Rank(key) == CHOOSE i \in 1..Len(SortedKeys) : SortedKeys[i] = key

\* serde_json::Map is a BTreeMap, ordered by key, or with the feature
\* preserve_order an IndexMap, ordered by first insertion.
MapOrders == {"sorted", "insertion"}

\* Faulty variant: the inserted member replaces the whole map.
map_insert_fresh(ms, key, val, order) == <<[k |-> key, val |-> val]>>

\* Map::insert: the value of a key already there is replaced where it stands;
\* a new key goes to its place in the order of the map.
map_insert(ms, key, val, order) ==
    LET m == [k |-> key, val |-> val]
        at == {i \in 1..Len(ms) : ms[i].k = key}
        before == {i \in 1..Len(ms) : Rank(ms[i].k) < Rank(key)}
    IN IF at # {} THEN [ms EXCEPT ![CHOOSE i \in at : TRUE] = m]
       ELSE IF order = "insertion" THEN Append(ms, m)
       ELSE SubSeq(ms, 1, Cardinality(before)) \o <<m>>
            \o SubSeq(ms, Cardinality(before) + 1, Len(ms))

\* The Map a deserialized object is: its members inserted one by one.
RECURSIVE ToMap(_, _, _)
ToMap(items, acc, order) ==
    IF items = <<>> THEN acc
    ELSE ToMap(Tail(items), map_insert(acc, Head(items).k, Head(items).val, order), order)

\* serde_json::to_writer_pretty of a Value at level k.
RECURSIVE PrettyValue(_, _)
PrettyValue(v, k) ==
    CASE v.t = "str" -> JsonEscaped(v.items)
      [] v.t = "num" -> Decimal(v.n)
      [] v.t = "arr" ->
           PrettyArray([i \in 1..Len(v.items) |-> PrettyValue(v.items[i], k + 1)], k)
      [] v.t = "obj" ->
           PrettyObject([i \in 1..Len(v.items) |->
                           <<v.items[i].k, PrettyValue(v.items[i].val, k + 1)>>], k)
      [] OTHER -> <<"n", "u", "l", "l">>

\* format!("http://10.0.2.2:{}/api", host_port)
HostApiUrl(host_port) == <<"h", "t", "t", "p", ":", "/", "/", "1", "0", ".", "0", ".", "2", ".", "2", ":">> \o Decimal(host_port) \o <<"/", "a", "p", "i">>

\* Step 3 of run_instance on the text of an existing shared/config.json: the
\* error of from_reader with the file as it was, or the file written anew.
patch_config(text, host_port, order) ==
    LET parsed == from_slice(text) IN
      IF ~parsed.ok THEN [ok |-> FALSE, text |-> text]
      ELSE LET existing ==
                 IF parsed.val.t = "obj"
                 THEN JObj(map_insert(
                             map_insert(ToMap(parsed.val.items, <<>>, order),
                                        HostApiUrlKey, JStr(HostApiUrl(host_port)), order),
                             HostVsockPortKey, JNum(host_port, TRUE), order))
                 ELSE parsed.val
           IN [ok |-> TRUE, text |-> PrettyValue(existing, 0)]

\* No shared/config.json.
NoConfig == <<"?">>

\* The shared/config.json run_instance can find: none; the one setup_instance
\* wrote, in either order of its map; compact ones with the two keys already
\* there, with a key given twice, with no key; values that are no object; a
\* text that is no JSON.
Configs ==
    {NoConfig,
     <<"{", "\n", " ", " ", "\"", "d", "o", "c", "k", "e", "r", "_", "r", "e", "g", "i", "s", "t", "r", "y", "\"", ":", " ", "\"", "r", "/", "x", "\"", ",", "\n", " ", " ", "\"", "p", "c", "c", "s", "_", "u", "r", "l", "\"", ":", " ", "\"", "h", "t", "t", "p", "s", ":", "/", "/", "p", "\"", ",", "\n", " ", " ", "\"", "r", "o", "o", "t", "f", "s", "_", "h", "a", "s", "h", "\"", ":", " ", "\"", "a", "b", "\"", "\n", "}">>,
     <<"{", "\n", " ", " ", "\"", "r", "o", "o", "t", "f", "s", "_", "h", "a", "s", "h", "\"", ":", " ", "\"", "a", "b", "\"", ",", "\n", " ", " ", "\"", "d", "o", "c", "k", "e", "r", "_", "r", "e", "g", "i", "s", "t", "r", "y", "\"", ":", " ", "\"", "r", "/", "x", "\"", ",", "\n", " ", " ", "\"", "p", "c", "c", "s", "_", "u", "r", "l", "\"", ":", " ", "\"", "h", "t", "t", "p", "s", ":", "/", "/", "p", "\"", "\n", "}">>,
     <<"{", "\"", "r", "o", "o", "t", "f", "s", "_", "h", "a", "s", "h", "\"", ":", "\"", "a", "\\", "\"", "b", "\"", ",", "\"", "h", "o", "s", "t", "_", "v", "s", "o", "c", "k", "_", "p", "o", "r", "t", "\"", ":", "1", ",", "\"", "h", "o", "s", "t", "_", "a", "p", "i", "_", "u", "r", "l", "\"", ":", "\"", "x", "\"", ",", "\"", "p", "c", "c", "s", "_", "u", "r", "l", "\"", ":", "\"", "p", "\"", "}">>,
     <<"{", "\"", "p", "c", "c", "s", "_", "u", "r", "l", "\"", ":", "\"", "a", "\"", ",", "\"", "d", "o", "c", "k", "e", "r", "_", "r", "e", "g", "i", "s", "t", "r", "y", "\"", ":", "\"", "r", "\"", ",", "\"", "p", "c", "c", "s", "_", "u", "r", "l", "\"", ":", "\"", "b", "\"", "}">>,
     <<"{", "}">>,
     <<"[", "]">>,
     <<"\"", "r", "o", "o", "t", "f", "s", "_", "h", "a", "s", "h", "\"">>,
     <<"{", "\"", "r", "o", "o", "t", "f", "s", "_", "h", "a", "s", "h", "\"", ":">>}

HostPorts == {0, 8080, 65535}

\* Where run_instance returns: before step 3 (no hypervisor, no manifest, no
\* image metadata), in step 3 (the file cannot be opened, is no JSON, or
\* cannot be created), after it with an error, or with Ok.
PatchStops == {"qemu", "manifest", "metadata", "config", "later", "ok"}

\* The files of the instance run_instance has opened with File::create or
\* had created when it returns at `stop`.
RunWrites(stop, config, patched) ==
    (IF stop \in {"later", "ok"} /\ config # NoConfig /\ patched.ok
     THEN {"shared/config.json"} ELSE {})
    \cup (IF stop = "ok" THEN {"hda.img", "qemu_stdout.log", "qemu_stderr.log"} ELSE {})

\* run_instance on an instance directory, as far as its files go: config is
\* shared/config.json before the call, after it what the call left there.
RunInstanceFiles ==
    /\ UNCHANGED <<poolVars, clientVars, keyVars, bridgeVars, gwVars, vm>>
    /\ rn.fn = "none"
    /\ \E config \in Configs, host_port \in HostPorts, order \in MapOrders,
          stop \in PatchStops :
         LET patched == IF config = NoConfig THEN [ok |-> TRUE, text |-> NoConfig]
                        ELSE patch_config(config, host_port, order)
             after == IF stop \in {"later", "ok"} THEN patched.text ELSE config
             again == IF after = NoConfig THEN [ok |-> TRUE, text |-> NoConfig]
                      ELSE patch_config(after, host_port, order)
         IN /\ (stop = "config") => config # NoConfig
            /\ (stop \in {"later", "ok"}) => patched.ok
            /\ rn' = [fn |-> "run_instance", config |-> config, host_port |-> host_port,
                      order |-> order, stop |-> stop, after |-> after,
                      again |-> again.text,
                      writes |-> RunWrites(stop, config, patched)]

\* ------------------------------------------------ run_instance: the argv
\* One argument of the command line: a fixed text, or a text with the values
\* formatted into it.
Arg(text) == <<text>>

Fixed(texts) == [i \in 1..Len(texts) |-> Arg(texts[i])]

\* format!("hostfwd={}:{}:{}-:{}", pm.protocol, pm.address, pm.from_port, pm.to_port)
HostFwd(pm) == <<"hostfwd=", pm.protocol, pm.address, pm.from_port, pm.to_port>>

\* "user,id=nic0_td" with "," and one hostfwd pushed per entry of port_map.
NetDev(port_map) ==
    <<"user,id=nic0_td", [i \in 1..Len(port_map) |-> HostFwd(port_map[i])]>>

\* The arguments of GPU number i (from 0) of the manifest.
GpuArgs(gpu_id, i) ==
    <<Arg("-object"), <<"iommufd,id=iommufd", i>>,
      Arg("-device"), <<"vfio-pci,bus=pci.1,host=,iommufd=iommufd", gpu_id, i>>>>

RECURSIVE AllGpuArgs(_, _)
AllGpuArgs(gpus, i) ==
    IF i >= Len(gpus) THEN <<>>
    ELSE GpuArgs(gpus[i + 1], i) \o AllGpuArgs(gpus, i + 1)

\* Faulty variant: the hypervisor is never run through sudo.
SudoNever(gpus) == <<>>

\* if !gpus.is_empty() { final_cmd.push("sudo") }
Sudo(gpus) == IF gpus # <<>> THEN <<Arg("sudo")>> ELSE <<>>

\* vcpus - 1 on u32, as its two 16-bit halves: with vcpus = 0 the subtraction
\* overflows, which panics in a debug build and wraps in a release build.
LastCpu(vcpus) == IF vcpus = 0 THEN <<65535, 65535>> ELSE <<0, vcpus - 1>>

NoArgv == [ok |-> FALSE, panic |-> FALSE, argv |-> <<>>]

\* run_instance from "Base QEMU args" to the final_cmd it prints: sysfs says
\* which of the two reads under /sys succeeds.
final_cmd(gpus, port_map, pin_numa, hugepage, vcpus, mem_mb, cid, sysfs, build) ==
    LET cmd == Fixed(<<"qemu-system-x86_64", "-accel", "kvm", "-m">>)
               \o <<<<"M", mem_mb>>, Arg("-smp"), <<"vcpus", vcpus>>>>
               \o Fixed(<<"-cpu", "host", "-machine",
                          "q35,kernel_irqchip=split,confidential-guest-support=tdx,hpet=off",
                          "-object", "tdx-guest,id=tdx", "-nographic", "-nodefaults",
                          "-chardev", "null,id=ser0", "-serial", "chardev:ser0",
                          "-kernel", "kernel", "-initrd", "initrd", "-bios", "bios",
                          "-cdrom", "rootfs", "-drive", "file=hda.img,if=none,id=virtio-disk0",
                          "-device", "virtio-blk-pci,drive=virtio-disk0", "-virtfs",
                          "local,path=shared,mount_tag=host-shared,readonly=off,security_model=mapped,id=virtfs0",
                          "-device">>)
               \o <<<<"vhost-vsock-pci,guest-cid=", cid>>>>
               \o <<Arg("-device"), Arg("virtio-net-pci,netdev=nic0_td"),
                    Arg("-netdev"), NetDev(port_map)>>
        with_gpus == Sudo(gpus) \o cmd
                     \o (IF gpus # <<>>
                         THEN Fixed(<<"-device", "pcie-root-port,id=pci.1,bus=pcie.0", "-fw_cfg",
                                      "name=opt/ovmf/X-PciMmio64,string=262144">>)
                              \o AllGpuArgs(gpus, 0)
                         ELSE <<>>)
                     \o <<Arg("-append"), Arg("cmdline")>>
        pinned == <<Arg("taskset"), Arg("-c"), <<"cpulist", gpus[1]>>>> \o with_gpus
        huge == <<Arg("-numa"), <<"node,nodeid=0,memdev=mem0,cpus=0-", LastCpu(vcpus)>>,
                  Arg("-object"),
                  <<"memory-backend-file,id=mem0,mem-path=/dev/hugepages,size=M,host-nodes=",
                    mem_mb, gpus[1]>>>>
    IN IF ~(pin_numa /\ Len(gpus) = 1) THEN [NoArgv EXCEPT !.ok = TRUE, !.argv = with_gpus]
       ELSE IF sysfs # "ok" THEN NoArgv
       ELSE IF ~hugepage THEN [NoArgv EXCEPT !.ok = TRUE, !.argv = pinned]
       ELSE IF vcpus = 0 /\ build = "debug" THEN [NoArgv EXCEPT !.panic = TRUE]
       ELSE [NoArgv EXCEPT !.ok = TRUE, !.argv = pinned \o huge]

\* The manifests and arguments the command line is built for.
GpuIds == {"18:00.0", "2a:00.0"}
GpuLists == {gpus \in UNION {[1..n -> GpuIds] : n \in 0..2} :
               \A i, j \in 1..Len(gpus) : i # j => gpus[i] # gpus[j]}
ArgvPortMaps == {pm \in {parse_port_mapping(p) : p \in SetupPorts} : pm.ok}
ArgvPortLists == UNION {[1..n -> ArgvPortMaps] : n \in 0..MaxPortMaps}
Sysfs == {"ok", "numa_node", "cpulist"}

\* run_instance up to the command line it prints.
BuildArgv ==
    /\ UNCHANGED <<poolVars, clientVars, keyVars, bridgeVars, gwVars, vm>>
    /\ rn.fn = "none"
    /\ \E gpus \in GpuLists, port_map \in ArgvPortLists, pin_numa \in BOOLEAN,
          hugepage \in BOOLEAN, vcpus \in 0..2, sysfs \in Sysfs, build \in Builds :
         rn' = [fn |-> "final_cmd", gpus |-> gpus, port_map |-> port_map,
                pin_numa |-> pin_numa, hugepage |-> hugepage, vcpus |-> vcpus,
                sysfs |-> sysfs, build |-> build,
                res |-> final_cmd(gpus, port_map, pin_numa, hugepage, vcpus, 2048, 3,
                                  sysfs, build)]

\* The call is over.
RunnerDone ==
    /\ UNCHANGED <<poolVars, clientVars, keyVars, bridgeVars, gwVars, vm>>
    /\ rn.fn # "none"
    /\ rn' = NoRun

NextRunner ==
    \/ MemoryToMb
    \/ ParsePortMapping
    \/ SetupInstance
    \/ RunInstanceFiles
    \/ BuildArgv
    \/ RunnerDone

SpecRunner == Init /\ [][NextRunner]_vars

\* ============================================== run_instance and shutdown
\* Faulty variant: the hypervisor is spawned before the image files are checked.
RunStepsSpawnFirst ==
    <<"qemu", "manifest", "manifest_json", "metadata", "config",
      "metadata_json", "kernel", "initrd", "bios", "rootfs", "cmdline",
      "disk_image", "spawn", "kernel_file", "initrd_file", "bios_file",
      "rootfs_file", "log_file", "track">>

\* The statements of run_instance in the order of the code: the checks that
\* return an error when what they need is missing, then the spawn of the
\* hypervisor and the push of its handle onto qemu_processes.
RunSteps ==
    <<"qemu", "manifest", "manifest_json", "metadata", "config",
      "metadata_json", "kernel", "initrd", "bios", "rootfs", "cmdline",
      "disk_image", "kernel_file", "initrd_file", "bios_file", "rootfs_file",
      "log_file", "spawn", "track">>

Effects == {"spawn", "track"}

\* What can be missing or failing when run_instance is called.
Things == {RunSteps[i] : i \in 1..Len(RunSteps)} \ Effects

MissingSets ==
    {{}} \cup {{thing} : thing \in Things}
    \cup {{"manifest", "kernel_file"}, {"cmdline", "rootfs_file"}}

\* The first step from position p on that fails or has an effect.
StopAt(p, missing) ==
    CHOOSE k \in p..Len(RunSteps) :
        /\ RunSteps[k] \in missing \cup Effects
        /\ \A j \in p..(k - 1) : RunSteps[j] \notin missing \cup Effects

\* run_instance returns in thread t: with an error, or Ok after the push.
Return(t, result, child, tracked) ==
    [vm EXCEPT !.run[t] = IdleRun,
               !.last = [ret |-> result, child |-> child, tracked |-> tracked]]

\* The thread runs on from position p to the next effect, or returns the
\* error of the first check that fails.
RunFrom(t, p, missing, child) ==
    LET k == StopAt(p, missing) IN
      IF RunSteps[k] \in missing THEN Return(t, RunSteps[k], child, FALSE)
      ELSE [vm EXCEPT !.run[t] =
                [pc |-> k, child |-> child,
                 pending |-> missing \cap {RunSteps[j] : j \in k..Len(RunSteps)}]]

\* Faulty variant: the list can be locked whoever holds it.
ProcsLockAlwaysFree(owner) == TRUE

\* qemu_processes.lock(): free when no thread holds the mutex.
ProcsLockFree(owner) == owner = "none"

\* run_instance is called in thread t and runs up to the spawn.
RunInstance(t) ==
    /\ UNCHANGED <<poolVars, clientVars, keyVars, bridgeVars, gwVars, rn>>
    /\ vm.run[t].pc = 0
    /\ \E missing \in MissingSets : vm' = RunFrom(t, 1, missing, NoChild)

\* Command::spawn: a new child, or an error.
RunSpawn(t) ==
    /\ UNCHANGED <<poolVars, clientVars, keyVars, bridgeVars, gwVars, rn>>
    /\ vm.run[t].pc # 0
    /\ RunSteps[vm.run[t].pc] = "spawn"
    /\ \/ vm' = Return(t, "spawn", NoChild, FALSE)
       \/ /\ vm.spawned < MaxChildren
          /\ LET child == vm.spawned + 1 IN
               vm' = [RunFrom(t, vm.run[t].pc + 1, vm.run[t].pending, child) EXCEPT
                         !.spawned = child, !.alive = @ \cup {child}]

\* procs.push(child) under the lock, then Ok(()).
RunTrack(t) ==
    /\ UNCHANGED <<poolVars, clientVars, keyVars, bridgeVars, gwVars, rn>>
    /\ vm.run[t].pc # 0
    /\ RunSteps[vm.run[t].pc] = "track"
    /\ ProcsLockFree(vm.holder)
    /\ vm' = [Return(t, "ok", vm.run[t].child, TRUE) EXCEPT
                 !.qemu_processes = Append(@, vm.run[t].child)]

\* A child exits by itself.
ChildExit ==
    /\ UNCHANGED <<poolVars, clientVars, keyVars, bridgeVars, gwVars, rn>>
    /\ \E c \in vm.alive : vm' = [vm EXCEPT !.alive = @ \ {c}]

\* shutdown_instances takes the lock.
ShutdownLock ==
    /\ UNCHANGED <<poolVars, clientVars, keyVars, bridgeVars, gwVars, rn>>
    /\ vm.sd.pc = "idle"
    /\ ProcsLockFree(vm.holder)
    /\ vm' = [vm EXCEPT !.holder = "shutdown",
                        !.sd = [pc |-> "sweep", snapshot |-> vm.qemu_processes,
                                i |-> 1, kill_sent |-> {}, waited |-> {}]]

\* child.kill() and child.wait() on the next child of the list: kill fails on
\* a child that has exited, wait may fail, and either failure is only logged.
ShutdownKill ==
    /\ UNCHANGED <<poolVars, clientVars, keyVars, bridgeVars, gwVars, rn>>
    /\ vm.sd.pc = "sweep"
    /\ vm.sd.i <= Len(vm.qemu_processes)
    /\ LET child == vm.qemu_processes[vm.sd.i] IN
         \E wait_ok \in BOOLEAN :
            vm' = [vm EXCEPT !.alive = IF wait_ok THEN @ \ {child} ELSE @,
                             !.sd = [@ EXCEPT !.i = @ + 1,
                                              !.kill_sent = @ \cup {child},
                                              !.waited = @ \cup {child}]]

\* procs.clear(), Ok(()), and the lock is released.
ShutdownClear ==
    /\ UNCHANGED <<poolVars, clientVars, keyVars, bridgeVars, gwVars, rn>>
    /\ vm.sd.pc = "sweep"
    /\ vm.sd.i > Len(vm.qemu_processes)
    /\ vm' = [vm EXCEPT !.qemu_processes = <<>>, !.holder = "none",
                        !.sd = [@ EXCEPT !.pc = "returned"]]

\* The caller of shutdown_instances goes on.
ShutdownReturned ==
    /\ UNCHANGED <<poolVars, clientVars, keyVars, bridgeVars, gwVars, rn>>
    /\ vm.sd.pc = "returned"
    /\ vm' = [vm EXCEPT !.sd = IdleSweep]

NextVm ==
    \/ \E t \in RunThreads : RunInstance(t) \/ RunSpawn(t) \/ RunTrack(t)
    \/ ChildExit
    \/ ShutdownLock
    \/ ShutdownKill
    \/ ShutdownClear
    \/ ShutdownReturned

SpecVm == Init /\ [][NextVm]_vars

\* ===================================================================== claims
\* Containers the Manager created and started.
Started == {i \in 1..Len(containers) : containers[i].st # "created"}

NoDuplicates(s) == \A i, j \in 1..Len(s) : s[i] = s[j] => i = j

\* C1: as long as add_cvm_to_pool never yields a port that is already
\* registered, no port is returned Ok by get_cvm twice, and a port get_cvm has
\* removed from free is not in free again, neither before it is returned nor
\* afterwards.
C1_NoDoubleHandout ==
    ~collided =>
        /\ NoDuplicates(handed)
        /\ \A i \in 1..Len(taken), j \in 1..Len(free) : taken[i] # free[j]

\* Two ports have been handed out and none was registered twice.
C1_Witness == Len(handed) >= 2 /\ ~collided /\ pc = "idle"

\* C2: in every state of the pool, a call in progress or failed part-way
\* included, free holds at most capacity ports.
C2_FreeWithinCapacity == Len(free) <= capacity

\* get_cvm removed a port and failed in the refill, leaving free short.
C2_Witness ==
    /\ ret.fn = "get_cvm" /\ ~ret.ok
    /\ Len(taken) > 0
    /\ Len(free) < capacity

\* C3: when new, fill_cvm_pool or get_cvm has returned Ok, free holds exactly
\* capacity ports, and capacity is the pool_size given to new.
C3_OkMeansFull ==
    (ret.ok /\ ret.fn \in {"new", "get_cvm"}) =>
        (Len(free) = capacity /\ capacity = pool_size)

\* A successful get_cvm on a pool of two has replenished the port it removed.
C3_Witness == ret.fn = "get_cvm" /\ ret.ok /\ pool_size >= 2 /\ Len(taken) >= 1

\* C4 as stated: free plus the ports get_cvm removed for tenants never exceed
\* capacity.
C4_Original == Len(free) + Len(taken) <= capacity

\* C4 as amended: until shutdown, and as long as add_cvm_to_pool never yields a
\* registered port, free plus the ports get_cvm removed for tenants never
\* exceed the number of ports registered in active.
C4_Amended ==
    (~shut /\ ~collided) =>
        Len(free) + Len(taken) <= Cardinality(Registered(active))

\* The pool is full again after a handout: the sum exceeds capacity.
C4_Witness ==
    /\ ~shut /\ ~collided /\ capacity >= 1
    /\ Len(taken) >= 1
    /\ Len(free) = capacity

AssignSteps == <<"get_cvm", "new_client", "attest", "assign", "run">>

\* C5: the steps of an assign_cvm call are get_cvm, client construction,
\* attest, assign, run, in this order and all for the chosen port; a step is
\* taken only when every earlier step succeeded, and assign_cvm returns the
\* port only after run succeeded.
C5_AssignOrder ==
    /\ Len(trace) <= Len(AssignSteps)
    /\ \A i \in 1..Len(trace) :
         /\ trace[i].step = AssignSteps[i]
         /\ i < Len(trace) => trace[i].ok
         /\ i > 1 => trace[i].port = trace[1].port
    /\ (ret.fn = "assign_cvm" /\ ret.ok) =>
         /\ Len(trace) = Len(AssignSteps)
         /\ trace[Len(trace)].ok
         /\ ret.port = trace[1].port

\* assign_cvm has returned a port.
C5_Witness == ret.fn = "assign_cvm" /\ ret.ok /\ ret.port # 0

\* C6 as stated: once shutdown has returned, every container the Manager
\* created and started has been through the sweep (stop or kill, and remove).
C6_AllStartedSwept ==
    (ret.fn = "shutdown" /\ ret.ok) =>
        \A id \in Started : sd_log[id].remove # "none"

\* C7: shutdown returns Ok with free and active empty, and every container
\* registered in active when it was called got a stop attempt, a kill attempt
\* exactly when the stop failed, and a remove attempt whatever came before.
C7_ShutdownSweepsAll ==
    ret.fn = "shutdown" =>
        /\ ret.ok
        /\ free = <<>>
        /\ Registered(active) = {}
        /\ \A id \in sd_reg :
             /\ sd_log[id].stop \in {"ok", "err"}
             /\ sd_log[id].kill # "none" <=> sd_log[id].stop = "err"
             /\ sd_log[id].remove \in {"ok", "err"}

\* shutdown has returned after every call on one container failed, and
\* another container was still swept.
C7_Witness ==
    /\ ret.fn = "shutdown"
    /\ \E a, b \in sd_reg :
         /\ a # b
         /\ sd_log[a] = [stop |-> "err", kill |-> "err", remove |-> "err"]
         /\ sd_log[b].stop = "ok"

RpcPaths == {"assign", "run", "is_assigned"}

\* C8: a client sends an assign, run or is_assigned request only after an
\* attest on it has completed successfully, and a call whose attestation
\* fails returns that error without sending its own request.
C8_AttestBeforeRpc ==
    /\ \A i \in 1..Len(cret.events) :
         cret.events[i].path \in RpcPaths => cret.events[i].after_attest
    /\ (cret.fn \in RpcPaths /\ cret.err = "attest") =>
         \A i \in 1..Len(cret.events) : cret.events[i].path = "quote"

\* An unattested client was asked to assign: it attested, then sent the request.
C8_Witness ==
    /\ cret.fn = "assign" /\ ~cret.was_attested
    /\ Len(cret.events) = 2
    /\ cret.events[2].path = "assign"

\* C9: is_attested is true only when an attest fetched a quote that verified,
\* whose report is TD1.0 and whose report_data is the SHA-512 of "app-data:"
\* and the hex SHA-256 of the held certificate's key; an attest that fails
\* leaves the flag false.
C9_AttestedOnlyWhenVerified ==
    /\ cl.is_attested =>
         /\ evidence.fetched
         /\ evidence.hash_ok
         /\ evidence.quote.json /\ evidence.quote.hex
         /\ evidence.quote.valid
         /\ evidence.quote.td10
         /\ evidence.quote.rd = generate_sha512_hash(DgstLine(cl.cert)[2], "app-data")
    /\ (cret.err = "attest" /\ ~cret.was_attested) => ~cl.is_attested

\* A client holding the second certificate has attested.
C9_Witness == cl.is_attested /\ cl.cert = 2 /\ cret.fn = "attest" /\ cret.ok

\* C10 as stated: an attested client delivers assign, run and is_assigned
\* requests only to a peer presenting the certificate it holds, the one that
\* was matched against the quote's report_data.
C10_RpcOnlyToAttestedCert ==
    \A i \in 1..Len(cret.events) :
        (cret.events[i].path \in RpcPaths /\ cret.events[i].after_attest) =>
            cret.events[i].peer = cl.cert

\* The hex text of a byte string, written out digit by digit.
HexText(bs) ==
    [i \in 1..(2 * Len(bs)) |->
        IF bs[(i + 1) \div 2] = 7
        THEN (IF i % 2 = 1 THEN "0" ELSE "7")
        ELSE "f"]

\* C11: get_key writes the big-endian length of the JSON text of {quote: q}
\* followed by exactly that many bytes of it, and against a provider (the
\* mock) that answers q with encrypted_key q and provider_quote q it returns
\* (q, q).
C11_KeyRoundTrip ==
    (/\ kx.fn = "get_key" /\ kx.connected /\ kx.wire = NoWire
     /\ kx.expected = kx.q /\ kx.e = kx.q /\ kx.p = kx.q) =>
        /\ Len(kx.frame) >= 4
        /\ from_be_bytes(SubSeq(kx.frame, 1, 4)) = Len(kx.frame) - 4
        /\ SubSeq(kx.frame, 5, Len(kx.frame))
             = JsonObject(<<<<QuoteKey, JsonArray(kx.q)>>>>)
        /\ kx.res.ok
        /\ kx.res.encrypted_key = kx.q
        /\ kx.res.provider_quote = kx.q

\* A quote of two different bytes came back from the echoing provider.
C11_Witness ==
    /\ kx.fn = "get_key" /\ kx.connected /\ kx.wire = NoWire
    /\ kx.expected = kx.q /\ kx.e = kx.q /\ kx.p = kx.q
    /\ kx.q = <<7, 255>>
    /\ kx.res.ok

\* C12: a GetSealingKey request whose quote is the hex text of q, served by a
\* provider that answers q with e and p, is answered 200 with the hex texts
\* of e and p, and the provider receives exactly q.
C12_SealingKeyRelays ==
    (/\ kx.fn = "get_sealing_key" /\ kx.connected
     /\ kx.body.json /\ kx.body.quote = HexText(kx.q)
     /\ kx.expected = kx.q) =>
        /\ kx.http.status = 200
        /\ kx.http.encrypted_key = HexText(kx.e)
        /\ kx.http.provider_quote = HexText(kx.p)
        /\ kx.served.heard
        /\ kx.served.got = kx.q

\* A relayed request with three different byte strings.
C12_Witness ==
    /\ kx.fn = "get_sealing_key" /\ kx.http.status = 200
    /\ kx.body.quote = HexText(kx.q)
    /\ kx.q = <<255, 7>> /\ kx.e = <<7>> /\ kx.p = <<7, 7>>

\* C14: RequestTooLarge is answered 400, NotFound 404 and every other error
\* 500, each with an error text in the body.
C14_ErrorStatus ==
    (kx.fn \in {"into_response", "get_sealing_key"} /\ ~kx.res.ok) =>
        /\ kx.http.status = (CASE kx.res.err = "RequestTooLarge" -> 400
                               [] kx.res.err = "NotFound" -> 404
                               [] OTHER -> 500)
        /\ kx.http.error # "none"

\* A NotFound error has been answered.
C14_Witness == kx.fn = "into_response" /\ kx.res.err = "NotFound" /\ kx.http.status = 404

\* C13 as stated: whenever no Notify request is in progress, .instance_info
\* does not exist or holds the whole payload of one "instance.info" request,
\* and a request with another event is answered 200.
C13_InstanceInfoWhole ==
    /\ (\A w \in Workers : nreq[w].pc = "idle") =>
          (~file.exists \/ file.data \in received)
    /\ \A w \in Workers :
          (nreq[w].pc = "idle" /\ nreq[w].event = "other") => nreq[w].status = 200

\* C15: the listener is bound before the thread is spawned and before the
\* function returns; the address returned is the one of the listener the
\* thread serves; a failed bind returns an error and spawns no thread.
C15_BoundBeforeSpawn ==
    /\ srv.thread => srv.listener # 0
    /\ srv.ret.state = "ok" =>
          /\ srv.thread
          /\ srv.listener # 0
          /\ srv.ret.addr = srv.listener
    /\ srv.serving # 0 =>
          /\ srv.thread
          /\ srv.serving = srv.listener
          /\ srv.ret.state = "ok" => srv.ret.addr = srv.serving
    /\ srv.bind = "err" => (srv.ret.state = "err" /\ ~srv.thread)
    /\ srv.ret.state = "err" => ~srv.thread

\* The thread already serves the listener whose address was returned.
C15_Witness == srv.ret.state = "ok" /\ srv.serving = 2 /\ srv.ret.addr = 2

\* A task is inside a pool operation.
InPool(t) ==
    gpc[t] \in {GwAssignSteps[i] : i \in 1..Len(GwAssignSteps)} \cup {"shutdown"}

\* C16: a task is inside assign_cvm or shutdown only while it holds the pool
\* mutex, so at most one pool operation is under way and the steps of two of
\* them never interleave.
C16_OnePoolOperation ==
    /\ \A t \in Tasks : InPool(t) => holder = t
    /\ \A t1, t2 \in Tasks : (InPool(t1) /\ InPool(t2)) => t1 = t2
    /\ mgr_shutdown = "running" => holder = SigTask

\* A handler is in its remote calls while another handler and the signal
\* task wait for the mutex.
C16_Witness ==
    /\ gpc[1] = "assign"
    /\ gpc[2] = "lock"
    /\ gpc[SigTask] = "lock"

\* C17: the signal task runs Manager::shutdown only under the pool mutex,
\* sends the stop signal only after shutdown has returned, and sends it at
\* most once.
C17_ShutdownThenStop ==
    /\ mgr_shutdown = "running" => holder = SigTask
    /\ mgr_shutdown # "none" => gpc[SigTask] \notin {"wait", "lock"}
    /\ stops >= 1 => mgr_shutdown = "done"
    /\ server = "stopping" => stops >= 1
    /\ stops <= 1

\* The stop signal has been sent after a sweep, with a handler still queued.
C17_Witness ==
    /\ stops = 1 /\ server = "stopping" /\ mgr_shutdown = "done"
    /\ \E h \in Handlers : gpc[h] = "lock"

\* The strings C18 speaks of: decimal digits, then at most one of M, G, T.
InMemGrammar(cs) ==
    /\ cs # <<>>
    /\ Head(cs) \in DigitSet
    /\ \A i \in 1..(Len(cs) - 1) : cs[i] \in DigitSet
    /\ cs[Len(cs)] \in DigitSet \cup {"M", "G", "T"}

\* The number of MiB such a string denotes, on six limbs (no overflow).
WideLimbs == 6
Quantity(cs) ==
    LET last == cs[Len(cs)]
        d == ParseUnsigned(IF last \in DigitSet THEN cs ELSE SubSeq(cs, 1, Len(cs) - 1),
                           WideLimbs).val
        g == MulAdd(d, 1024, 0).val
    IN IF last = "T" THEN MulAdd(g, 1024, 0).val
       ELSE IF last = "G" THEN g
       ELSE d

Widen(x) == x \o Zero(WideLimbs - Len(x))

\* C18 as stated: for digits d with an optional M, G or T, memory_to_mb
\* returns d, 1024 d or 1024^2 d, and is monotone in the quantity denoted.
C18_MemoryToMbExact ==
    (rn.fn = "memory_to_mb" /\ InMemGrammar(rn.mem) /\ InMemGrammar(rn.mem2)) =>
        /\ rn.res.ok
        /\ Widen(rn.res.val) = Quantity(rn.mem)
        /\ (~Less(Quantity(rn.mem2), Quantity(rn.mem)) /\ rn.res2.ok) =>
              ~Less(rn.res2.val, rn.res.val)

\* C19 as stated: an accepted port string yields a protocol that is tcp or
\* udp in lower case, and the address 127.0.0.1 exactly when the string had
\* three fields.
C19_PortMapShape ==
    (rn.fn = "parse_port_mapping" /\ rn.res.ok) =>
        /\ rn.res.protocol \in {<<"t", "c", "p">>, <<"u", "d", "p">>}
        /\ rn.res.address = <<"1", "2", "7", ".", "0", ".", "0", ".", "1">>
             <=> rn.fields = 3

\* C20 as stated: the manifest a successful setup_instance writes has
\* memory >= 1, disk_size >= 1 and every from and to port in 1..65535.
C20_ManifestInvariants ==
    (rn.fn = "setup_instance" /\ rn.res.ok) =>
        /\ rn.res.manifest.memory # Zero(U64Limbs)
        /\ rn.res.manifest.disk_size # Zero(U64Limbs)
        /\ \A i \in 1..Len(rn.res.manifest.port_map) :
             /\ rn.res.manifest.port_map[i].from_port \in 1..65535
             /\ rn.res.manifest.port_map[i].to_port \in 1..65535

\* C21: after a successful setup_instance, vm-manifest.json parses to a
\* VMConfig with vcpu equal to the vcpus argument, port_map equal to the parsed
\* port strings in input order, memory equal to the parsed MiB value and
\* disk_size equal to the parsed disk value divided by 1024; and
\* shared/app-compose.json parses to an object with manifest_version 1 whose
\* docker_compose_file is the compose text.
C21_ManifestMatchesInputs ==
    (rn.fn = "setup_instance" /\ rn.res.ok) =>
        LET parsed == VMConfigFromJson(rn.res.manifest_json)
            app == from_slice(rn.res.app_compose)
        IN /\ parsed.ok
           /\ parsed.config.vcpu = rn.vcpus
           /\ parsed.config.port_map =
                [i \in 1..Len(rn.ports) |-> parse_port_mapping(rn.ports[i])]
           /\ parsed.config.memory = memory_to_mb(rn.memory_str, rn.build).val
           /\ parsed.config.disk_size = Div(memory_to_mb(rn.disk_str, rn.build).val, 1024)
           /\ app.ok
           /\ Index(app.val, ManifestVersionKey) = [JNum(1, TRUE) EXCEPT !.items = <<"1">>]
           /\ Index(app.val, ComposeFileKey) = JStr(rn.compose_content)

\* A setup_instance that succeeded with two different port strings and a
\* compose text that needs escaping.
C21_Witness ==
    /\ rn.fn = "setup_instance" /\ rn.res.ok
    /\ Len(rn.ports) = 2 /\ rn.ports[1] # rn.ports[2]
    /\ \E i \in 1..Len(rn.compose_content) : rn.compose_content[i] = "\n"
    /\ rn.memory_str = <<"2", "T">>

\* The errors of run_instance for a missing manifest, metadata.json,
\* metadata key or referenced image file.
PreflightMissing ==
    {"manifest", "metadata", "kernel", "initrd", "bios", "rootfs", "cmdline",
     "kernel_file", "initrd_file", "bios_file", "rootfs_file"}

\* C22: when run_instance fails because the manifest, metadata.json, a required
\* metadata key or a referenced kernel, initrd, bios or rootfs file is missing,
\* the call has spawned no hypervisor process and has not touched the tracked
\* list.
C22_PreflightBeforeSpawn ==
    vm.last.ret \in PreflightMissing =>
        /\ vm.last.child = NoChild
        /\ ~vm.last.tracked

\* run_instance failed on a missing rootfs file while another child is tracked.
C22_Witness ==
    /\ vm.last.ret = "rootfs_file"
    /\ vm.qemu_processes # <<>>

\* C23: the sweep of shutdown_instances calls kill and wait on every child
\* that was in the list when it took the lock, whatever the outcomes, and
\* returns Ok with the list empty; while it holds the lock no child is
\* appended, so a child is either in the swept list or appended after the
\* sweep.
C23_SweepProcessesAll ==
    /\ vm.holder = "shutdown" => vm.qemu_processes = vm.sd.snapshot
    /\ vm.sd.pc = "returned" =>
         /\ \A i \in 1..Len(vm.sd.snapshot) :
              /\ vm.sd.snapshot[i] \in vm.sd.kill_sent
              /\ vm.sd.snapshot[i] \in vm.sd.waited
         /\ \A i \in 1..Len(vm.qemu_processes) :
              \A j \in 1..Len(vm.sd.snapshot) : vm.qemu_processes[i] # vm.sd.snapshot[j]
         /\ vm.holder = "none"

\* A sweep over one tracked child has returned while another child, spawned
\* but not yet appended, was left out of it.
C23_Witness ==
    /\ vm.sd.pc = "returned"
    /\ Len(vm.sd.snapshot) = 1
    /\ \E t \in RunThreads : vm.run[t].pc # 0 /\ vm.run[t].child # NoChild

\* A step in which get_cvm scans free.
ScanStep ==
    /\ pc = "idle" /\ mgr = "live"
    /\ pc' = "fill" \/ ret'.err = "NoFreeCvm"
    /\ <<pc, ret, scan, trace>>' # <<pc, ret, scan, trace>>

\* The indices the scan probed without success: those before the first that
\* attests, all of them when none does.
Failed(att, n) == {j \in 1..n : j \notin att /\ \A i \in att : j < i}

C25_FailedEntryDies ==
    [][ScanStep =>
         \A j \in Failed(scan', Len(free)) :
            /\ \A k \in 1..Len(free') : free'[k] # free[j]
            /\ active[free[j]] # 0 => containers'[active[free[j]]].st # "running"
      ]_vars

\* C26: on a client on which attest has returned Ok, an assign, run or
\* is_assigned call puts exactly one request on the wire, its own: no quote is
\* fetched and verify_quote_and_report_data is not run.
C26_OneCallOnceAttested ==
    (cret.fn \in RpcPaths /\ cret.was_attested) =>
        /\ Len(cret.events) = 1
        /\ cret.events[1].path = cret.fn
        /\ cret.verifies = 0

\* An attested client has made a run call that failed.
C26_Witness ==
    /\ cret.fn = "run" /\ cret.was_attested /\ ~cret.ok
    /\ cl.is_attested

\* A step of a call on the client that cl already was (not CvmClient::new).
SameClient == cret' # cret /\ cret'.fn # "new"

\* C27 as stated: once true is_attested stays true for the lifetime of the
\* client and verification is not run again on it, and an RPC that fails with
\* a non-2xx status or a transport error leaves the flag as it was before the
\* call.
C27_Original ==
    [][SameClient =>
         /\ cl.is_attested => (cl'.is_attested /\ cret'.verifies = 0)
         /\ (cret'.fn \in RpcPaths /\ cret'.err \in {"non2xx", "transport"}) =>
              cl'.is_attested = cl.is_attested
      ]_vars

\* C27 amended: is_attested is sticky and verification is never run again on
\* an attested client; an RPC that fails with a non-2xx status or a transport
\* error never clears the flag, and leaves it as it was unless the attestation
\* that make_request ran first on a client not yet attested succeeded, in
\* which case the flag is true although the RPC failed.
C27_Amended ==
    [][SameClient =>
         /\ cl.is_attested => (cl'.is_attested /\ cret'.verifies = 0)
         /\ (cret'.fn \in RpcPaths /\ cret'.err \in {"non2xx", "transport"}) =>
              /\ cl.is_attested => cl'.is_attested
              /\ (cl'.is_attested /\ ~cl.is_attested) =>
                   (cret'.verifies = 1 /\ Len(cret'.events) = 2)
      ]_vars

\* An RPC on a client not yet attested has attested it and then failed with a
\* non-2xx status: the flag is true after the failed call.
C27_Witness ==
    /\ cret.fn \in RpcPaths /\ cret.err = "non2xx"
    /\ ~cret.was_attested
    /\ cl.is_attested

\* The provider sent the whole frame it declared.
WholeFrame == kx.wire # NoWire /\ Len(kx.wire.sent) = 4 + Len(kx.wire.payload)

\* C28 as stated: when the key provider closes the connection with bytes of
\* the response frame outstanding, inside the length prefix or inside the
\* payload, get_key fails with ConnectionClosed.
C28_ClosedMidFrame ==
    (kx.wire # NoWire /\ Len(kx.wire.sent) < 4 + Len(kx.wire.payload)) =>
        (~kx.res.ok /\ kx.res.err = "ConnectionClosed")

\* C29 as stated: a response frame received whole whose payload is not
\* well-formed JSON makes get_key fail with the Data error.
C29_Original ==
    (WholeFrame /\ ~from_slice(kx.wire.payload).ok) =>
        (~kx.res.ok /\ kx.res.err = "Data")

\* C29 amended: a response frame received whole whose payload is not
\* well-formed JSON makes get_key fail with the Json error; Data is the error
\* for a well-formed payload whose encrypted_key or provider_quote is not an
\* array.
C29_Amended ==
    WholeFrame =>
        LET parsed == from_slice(kx.wire.payload) IN
          /\ ~parsed.ok => (~kx.res.ok /\ kx.res.err = "Json")
          /\ kx.res.err = "Data" =>
               /\ parsed.ok
               /\ \/ Index(parsed.val, EncryptedKeyKey).t # "arr"
                  \/ Index(parsed.val, ProviderQuoteKey).t # "arr"

\* A whole frame whose payload has text after the JSON value was refused.
C29_Witness ==
    /\ WholeFrame
    /\ kx.wire.payload = <<"[", "]", "x">>
    /\ ~kx.res.ok

\* The byte the claim gives for an array element: the element itself when it
\* is an unsigned 8-bit integer, 0 otherwise.
ByteOrZero(v) == IF v.t = "num" /\ v.u64 /\ v.n <= 255 THEN v.n ELSE 0

\* C30 as stated: every element of encrypted_key and provider_quote that is
\* not an unsigned 8-bit integer is decoded as the byte 0, and elements in
\* range are decoded unchanged.
C30_OutOfRangeIsZero ==
    (WholeFrame /\ kx.res.ok) =>
        LET parsed == from_slice(kx.wire.payload)
            ek == Index(parsed.val, EncryptedKeyKey).items
            pq == Index(parsed.val, ProviderQuoteKey).items
        IN /\ kx.res.encrypted_key = [i \in 1..Len(ek) |-> ByteOrZero(ek[i])]
           /\ kx.res.provider_quote = [i \in 1..Len(pq) |-> ByteOrZero(pq[i])]

\* C31 (as stated): GetSealingKey contacts the key provider only after the
\* body has parsed and the quote has hex-decoded: invalid hex is answered with
\* the Data error (HTTP 500) and no connect; every accepted request opens
\* exactly one connection and sends exactly one request frame on it.
C31_Original ==
    kx.fn = "get_sealing_key" =>
       /\ ~DecodeQuote(kx.body).ok => kx.tcp = NoTcp
       /\ (kx.body.json /\ ~hex_decode(kx.body.quote).ok) =>
              /\ kx.res = KeyErr("Data")
              /\ kx.http.status = 500
       /\ DecodeQuote(kx.body).ok =>
              kx.tcp = [connects |-> 1, opened |-> 1, frames |-> 1]

\* C31 (amended): as above, but an accepted request makes exactly one call of
\* connect, never a second one; it has one connection and one whole request
\* frame on it exactly when the connect and the writes succeed, and otherwise
\* fails with the Io error, with at most one connection and no whole frame.
C31_Amended ==
    kx.fn = "get_sealing_key" =>
       /\ ~DecodeQuote(kx.body).ok => kx.tcp = NoTcp
       /\ (kx.body.json /\ ~hex_decode(kx.body.quote).ok) =>
              /\ kx.res = KeyErr("Data")
              /\ kx.http.status = 500
       /\ DecodeQuote(kx.body).ok =>
              /\ kx.tcp.connects = 1
              /\ kx.connected =>
                    /\ kx.tcp = [connects |-> 1, opened |-> 1, frames |-> 1]
                    /\ kx.frame = KeyRequestFrame(DecodeQuote(kx.body).bytes)
              /\ ~kx.connected =>
                    /\ kx.tcp.opened \in {0, 1}
                    /\ kx.tcp.frames = 0
                    /\ kx.res = KeyErr("Io")

\* An accepted request failed at a provider that refused the connection, after
\* one connect and without a second one.
C31_Witness ==
    /\ kx.fn = "get_sealing_key"
    /\ DecodeQuote(kx.body).ok
    /\ ~kx.connected
    /\ kx.tcp = [connects |-> 1, opened |-> 0, frames |-> 0]
    /\ kx.http.status = 500

\* A body with invalid hex was answered without any connect.
C31_WitnessHex ==
    /\ kx.fn = "get_sealing_key"
    /\ kx.body.json /\ ~hex_decode(kx.body.quote).ok
    /\ kx.tcp = NoTcp

\* C32: while get_key reads a response frame, bytes received + remaining is
\* the declared length, each read asks for at most min(4096, remaining) bytes,
\* remaining never underflows, the loop ends exactly when the declared number
\* of bytes has been received or with an error, no byte beyond the declared
\* frame is consumed, and a frame of declared length 0 reaches the parser as
\* an empty payload without any read.
C32_ReadLoop ==
    /\ rd.pc # "idle" =>
          /\ rd.received + rd.remaining = rd.declared
          /\ rd.remaining >= 0
          /\ rd.consumed = rd.received
          /\ rd.consumed <= rd.declared
          /\ rd.buffer <= ChunkSize
          /\ rd.bytes_read <= rd.buffer
          /\ rd.buffer <= rd.remaining + rd.bytes_read
    /\ rd.ret = "parse" => rd.parsed = rd.declared /\ rd.received = rd.declared
    /\ rd.ret \in {"ConnectionClosed", "Io"} => rd.received < rd.declared
    /\ rd.ret = "ConnectionClosed" => rd.sent = rd.received
    /\ (rd.pc = "loop" /\ rd.received = rd.declared) => ENABLED ReadParse
    /\ (rd.pc # "idle" /\ rd.declared = 0) =>
          /\ rd.buffer = 0 /\ rd.consumed = 0
          /\ rd.ret \in {"none", "parse"}
          /\ rd.ret = "parse" => rd.parsed = 0 /\ ~from_slice(<<>>).ok

\* A frame longer than one buffer, from a provider that sent more than it
\* declared, was read in several reads, one of them short, and handed to the
\* parser.
C32_Witness ==
    /\ rd.ret = "parse"
    /\ rd.declared > ChunkSize
    /\ rd.sent > rd.declared
    /\ rd.short > 0
    /\ rd.parsed = rd.declared

\* A frame of declared length 0 reached the parser.
C32_WitnessEmpty == rd.ret = "parse" /\ rd.declared = 0

\* The keys of an object, and the keys run_instance sets.
KeysOf(v) == IF v.t = "obj" THEN {v.items[i].k : i \in 1..Len(v.items)} ELSE {}

PatchedKeys == {HostApiUrlKey, HostVsockPortKey}

Places(argv, arg) == {i \in 1..Len(argv) : argv[i] = arg}
TagPlaces(argv, tag) == {i \in 1..Len(argv) : argv[i][1] = tag}

\* C34: the argv run_instance builds starts with the hypervisor path when the
\* manifest has no GPUs and with sudo and the hypervisor path when it has;
\* taskset -c <cpulist> stands in front of that exactly when pin_numa is set
\* and there is exactly one GPU; the hugepage memory backend and -numa are
\* there exactly when pin_numa, one GPU and hugepage all hold; there is one
\* hostfwd per port_map entry, in port_map order, and GPU i uses iommufd i.
C34_Argv ==
    (rn.fn = "final_cmd" /\ rn.res.ok) =>
       LET argv == rn.res.argv
           pinned == rn.pin_numa /\ Len(rn.gpus) = 1
           rest == IF pinned THEN SubSeq(argv, 4, Len(argv)) ELSE argv
           net == TagPlaces(argv, "user,id=nic0_td")
       IN /\ pinned <=> Places(argv, Arg("taskset")) # {}
          /\ pinned => /\ SubSeq(argv, 1, 2) = <<Arg("taskset"), Arg("-c")>>
                       /\ argv[3][1] = "cpulist"
          /\ rn.gpus = <<>> => /\ rest[1] = Arg("qemu-system-x86_64")
                               /\ Places(argv, Arg("sudo")) = {}
          /\ rn.gpus # <<>> => /\ SubSeq(rest, 1, 2) = <<Arg("sudo"), Arg("qemu-system-x86_64")>>
                               /\ Places(argv, Arg("sudo")) = {IF pinned THEN 4 ELSE 1}
          /\ (pinned /\ rn.hugepage) <=> Places(argv, Arg("-numa")) # {}
          /\ (pinned /\ rn.hugepage) <=>
                TagPlaces(argv, "memory-backend-file,id=mem0,mem-path=/dev/hugepages,size=M,host-nodes=") # {}
          /\ Cardinality(net) = 1
          /\ \A i \in net :
                /\ argv[i - 1] = Arg("-netdev")
                /\ argv[i][2] = [j \in 1..Len(rn.port_map) |-> HostFwd(rn.port_map[j])]
          /\ Cardinality(TagPlaces(argv, "iommufd,id=iommufd")) = Len(rn.gpus)
          /\ \A i \in 0..(Len(rn.gpus) - 1) :
                \E at \in 1..(Len(argv) - 3) :
                   /\ SubSeq(argv, at, at + 3) = GpuArgs(rn.gpus[i + 1], i)
                   /\ i > 0 => SubSeq(argv, at - 4, at - 1) = GpuArgs(rn.gpus[i], i - 1)

\* A pinned command line with one GPU, hugepages and two forwarded ports.
C34_Witness ==
    /\ rn.fn = "final_cmd" /\ rn.res.ok
    /\ rn.pin_numa /\ rn.hugepage /\ Len(rn.gpus) = 1
    /\ Len(rn.port_map) = 2 /\ rn.port_map[1] # rn.port_map[2]
    /\ rn.res.argv[4] = Arg("sudo")

\* A command line with two GPUs, not pinned though pin_numa is set.
C34_WitnessTwo ==
    /\ rn.fn = "final_cmd" /\ rn.res.ok
    /\ rn.pin_numa /\ Len(rn.gpus) = 2
    /\ rn.res.argv[1] = Arg("sudo")

\* C35: when get_cvm or assign_cvm returns an error, free holds the same ports
\* as before the call.  The port the call took out of free was in free before
\* the call, so it has to be in free when the call has returned an error.
C35_FailedCallKeepsFree ==
    (/\ pc = "idle"
     /\ ret.fn \in {"get_cvm", "assign_cvm"}
     /\ ~ret.ok
     /\ ret.err # "NoFreeCvm") =>
        \E i \in 1..Len(free) : free[i] = chosen

\* Manager::shutdown has returned and no operation is running.
ShutdownCompleted == shut /\ pc = "idle"

\* C36: after Manager::shutdown has completed, every later get_cvm or
\* assign_cvm on the same Manager fails with NoFreeCvm and creates no
\* container: no container is created or started after shutdown.
C36_NothingAfterShutdown ==
    [][ShutdownCompleted =>
          /\ Len(containers') = Len(containers)
          /\ Running(containers') \subseteq Running(containers)
          /\ pc' \in {"idle", "sweep"}
          /\ (pc' = "idle") =>
                /\ ret'.fn \in {"get_cvm", "assign_cvm"}
                /\ ~ret'.ok
                /\ ret'.err = "NoFreeCvm"
                /\ free' = <<>> /\ active' = NoActive
                /\ containers' = containers /\ handed' = handed]_poolVars

\* assign_cvm was called on a Manager whose shutdown had swept containers, and
\* failed with NoFreeCvm.
C36_Witness ==
    /\ ShutdownCompleted
    /\ sd_reg # {}
    /\ ret = [fn |-> "assign_cvm", ok |-> FALSE, port |-> 0, err |-> "NoFreeCvm"]

\* C37: between pool operations and until shutdown, every port in free is a
\* key of active and free holds no port twice; a port handed out to a tenant
\* stays a key of active, with its container identifier, until shutdown.
C37_FreeAndActive ==
    [][(~shut /\ ~shut') =>
          /\ (pc' = "idle") =>
                /\ \A i \in 1..Len(free') : active'[free'[i]] # 0
                /\ NoDuplicates(free')
          /\ \A i \in 1..Len(handed) :
                /\ active[handed[i]] # 0
                /\ active'[handed[i]] = active[handed[i]]]_poolVars

\* The files a call of setup_instance has written.
WrittenFiles(res) == {res.written[i] : i \in 1..Len(res.written)}

C39_SignalLeadsToStop ==
    /\ (gpc[SigTask] = "lock") ~> (holder = SigTask)
    /\ (gpc[SigTask] = "lock") ~> (mgr_shutdown = "done")
    /\ (gpc[SigTask] = "lock") ~> (stops = 1 /\ server = "stopping")

\* The signal arrived while one handler held the mutex and another waited
\* for it.
C39_Witness ==
    /\ gpc[SigTask] = "lock"
    /\ holder \in Handlers
    /\ \E h \in Handlers : gpc[h] = "lock"

\* C40: the key-provider exchange of GetSealingKey never stalls the bridge's
\* scheduler: a Notify request that arrived while GetSealingKey requests wait
\* for an unresponsive key provider is eventually taken up by a worker.  The
\* exchange runs on the worker threads themselves, so with every worker inside
\* get_key the Notify task is never polled.
C40_NotifyEventuallyServed == (sch.pending > 0) ~> (sch.pending = 0)

\* The stall: a Notify waits and every worker thread is inside get_key.
C40_Stalled == sch.pending > 0 /\ sch.blocked = Workers

====
